---- MODULE Spec2Model ----
(***************************************************************************)
(* Order pricing, discount redemption, order lifecycle and change          *)
(* notifications of the food-delivery backend (Django + PostgreSQL).       *)
(*                                                                         *)
(* The database is modelled at READ COMMITTED (the PostgreSQL and Django   *)
(* default): a transaction sees committed rows plus its own writes, an     *)
(* UPDATE or SELECT ... FOR UPDATE waits for the row lock, and NOTIFY      *)
(* issued inside a transaction is held by the server until commit and      *)
(* dropped on rollback.                                                    *)
(***************************************************************************)
EXTENDS Integers, Sequences, FiniteSets, TLC

\* ---------------------------------------------------------------- bounds
NumWorkers == 2
MaxRequests == 3
MaxOrders == 2

Workers == 1..NumWorkers
OrderIds == 1..MaxOrders
None == "None"                 \* a null text
Null == 0 - 1                  \* a null number
Absent == [absent |-> TRUE]    \* a null row or object

\* ------------------------------------------------------- OrderStatus enum
PENDING == "pending"
PREP == "preparing"
OUT == "out_for_delivery"
DELIVERED == "delivered"
CANCELED == "canceled"
OrderStatus == {PENDING, PREP, OUT, DELIVERED, CANCELED}

\* ------------------------------------------------------------ generic helpers
RECURSIVE SeqSum(_)
SeqSum(s) == IF s = <<>> THEN 0 ELSE Head(s) + SeqSum(Tail(s))

Range(s) == {s[i] : i \in 1..Len(s)}

\* jsonb  op->>'key' : the value under the key, SQL NULL when the key is absent
JsonGet(obj, key) == IF key \in DOMAIN obj THEN obj[key] ELSE None

\* ------------------------------------------------- OrderActionAPIView.post
\* request strings accepted by the action endpoint (after strip().lower())
ActionStrings ==
    {"accept", "mark-ready", "ready", "out-for-delivery", "dispatch", "out",
     "deliver", "delivered", "cancel", "refund"}

\* the Order method an action string is dispatched to
ActionMethod(a) ==
    CASE a = "accept" -> "accept"
      [] a \in {"mark-ready", "ready"} -> "mark_ready"
      [] a \in {"out-for-delivery", "dispatch", "out"} -> "out_for_delivery"
      [] a \in {"deliver", "delivered"} -> "deliver"
      [] a = "cancel" -> "cancel"
      [] OTHER -> "unsupported"

Methods == {"accept", "mark_ready", "out_for_delivery", "deliver", "cancel"}

\* ------------------------------------------------ Order transition methods
\* accept without its guard on the status
GuardOkAcceptAlways(m, status) ==
    CASE m = "accept" -> TRUE
      [] m = "mark_ready" -> status = PREP
      [] m = "out_for_delivery" -> status = PREP
      [] m = "deliver" -> status = OUT
      [] m = "cancel" -> status \notin {DELIVERED, CANCELED}
      [] OTHER -> FALSE

\* the guard each method evaluates on the in-memory status
GuardOk(m, status) ==
    CASE m = "accept" -> status = PENDING
      [] m = "mark_ready" -> status = PREP
      [] m = "out_for_delivery" -> status = PREP
      [] m = "deliver" -> status = OUT
      [] m = "cancel" -> status \notin {DELIVERED, CANCELED}
      [] OTHER -> FALSE

\* the status the method assigns to self.status (mark_ready assigns none)
MutatedStatus(m, status) ==
    CASE m = "accept" -> PREP
      [] m = "out_for_delivery" -> OUT
      [] m = "deliver" -> DELIVERED
      [] m = "cancel" -> CANCELED
      [] OTHER -> status

\* a save that writes the status column only
UpdateFieldsStatusOnly(m) == {"status"}

\* save(update_fields=...) of each method
UpdateFields(m) == IF m = "mark_ready" THEN {"meta"} ELSE {"status", "meta"}

\* Order._append_staff_op: a new list with one entry appended
AppendStaffOp(meta, event, by, at, note) ==
    [meta EXCEPT !.staff_ops =
        Append(@, [event |-> event, by |-> by, at |-> at,
                   note |-> IF note = None THEN "" ELSE note])]

\* the in-memory Order after the method body ran up to save()
Mutate(obj, m, by, at, reason) ==
    [obj EXCEPT !.status = MutatedStatus(m, obj.status),
                !.meta = AppendStaffOp(obj.meta, m, by, at,
                                       IF m = "cancel" THEN reason ELSE None)]

\* UPDATE orders SET <fields> WHERE id = pk : only the listed columns change
ApplyUpdate(row, obj, fields) ==
    [k \in DOMAIN row |-> IF k \in fields THEN obj[k] ELSE row[k]]

\* ------------------------------------------------- orders_notify() trigger
\* ready: EXISTS staff_ops element with op->>'action' = 'mark_ready'
TriggerReady(row) ==
    \E i \in 1..Len(row.meta.staff_ops) :
        JsonGet(row.meta.staff_ops[i], "action") = "mark_ready"

OrdersNotify(tgop, id, row) ==
    [src |-> "trigger",
     event |-> IF tgop = "INSERT" THEN "order_created" ELSE "order_updated",
     order_id |-> id, status |-> row.status, ready |-> TriggerReady(row)]

\* ------------------------------------------------------------ Order._notify
\* payload handed to pg_notify by the on_commit hook of each method
HookPayload(m, id, obj, reason) ==
    CASE m = "mark_ready" ->
           [src |-> "hook", event |-> "order_updated", order_id |-> id,
            ready |-> TRUE]
      [] m = "cancel" ->
           [src |-> "hook", event |-> "order_status_changed", order_id |-> id,
            status |-> obj.status,
            reason |-> IF reason = None THEN "" ELSE reason]
      [] OTHER ->
           [src |-> "hook", event |-> "order_status_changed", order_id |-> id,
            status |-> obj.status]

\* ------------------------------------------------------------------ state
VARIABLES
    orders,      \* orders table, committed rows: id -> row or Absent
    dinners,     \* order_dinner rows with their option and item-line rows
    ledger,      \* promotion_coupon_redemption, committed rows in insert order
    channel,     \* notifications delivered on channel orders_events
    nextId,      \* BigAutoField sequence of orders.id
    rowLock,     \* row lock of an orders row: 0 or the holding worker
    couponLock,  \* row lock of a coupon row: 0 or the holding worker
    coupons,     \* promotion_coupon rows: code -> row
    memberships, \* promotion_membership rows: customer -> row or Absent
    wk,          \* request handlers: position, locals, open transaction
    history,     \* committed order mutations, in commit order
    clock,       \* timezone.now(); no step of these specifications lets time pass
    started,     \* number of requests accepted so far
    last,        \* the HTTP response sent last, with the request it answers
    relay        \* iter_order_notifications generators: subscriber -> locals

vars == <<orders, dinners, ledger, channel, nextId, rowLock, couponLock,
          coupons, memberships, wk, history, clock, started, last, relay>>

\* ------------------------------------------------------ staff/eventbus.py
\* the SSE connections, each running its own iter_order_notifications
Subscribers == {1}

\* CHANNELS, in the order LISTEN is issued; notifications are sent on
\* orders_events
RelayChannels == << "orders_audit", "orders_events" >>

\* backoff = 0.5 and its ceiling 10.0, in tenths of a second
BackoffStart == 5
BackoffCap == 100

\* the generator before its first connection: conn and cur are None
RelayStart ==
    [pc |-> "down", listened |-> 0, start |-> 0, pos |-> 0, pending |-> 0,
     diags |-> 0, backoff |-> BackoffStart, slept |-> 0, out |-> Absent]

\* the write set of an open transaction
NoTx == [order |-> Absent, dinner |-> Absent, ledger |-> <<>>,
         notify |-> <<>>, hooks |-> <<>>]

IdleWorker ==
    [pc |-> "idle", kind |-> None, order |-> 0, method |-> None,
     reason |-> None, seen |-> None, obj |-> Absent, in |-> Absent,
     eval |-> Absent, tx |-> NoTx]

\* an HTTP response: the status code, with the method the request asked for
\* and the order status the handler loaded
Response(r, kind, o, m, seen, code) ==
    [kind |-> kind, method |-> m, seen |-> seen, code |-> code]

NoResponse == Response(0, None, 0, None, None, 0)

\* request.user.id, null for an anonymous request
StaffIds == {7}

Reasons == {None, "late"}

EmptyMeta == [discounts |-> <<>>, staff_ops |-> <<>>]

\* a freshly created order row, before totals are fixed
NewOrderRow(cust, source) ==
    [status |-> PENDING, customer |-> cust, order_source |-> source,
     subtotal_cents |-> 0, discount_cents |-> 0, total_cents |-> 0,
     meta |-> EmptyMeta]

\* -------------------------------------- OrderActionAPIView.post, step by step
\* get_object_or_404, dispatch on the action string, the method's guard and
\* its in-memory mutation (status, _append_staff_op) up to save()
ActionBegin(r, o, a, by, reason) ==
    /\ wk[r].pc = "idle"
    /\ LET m == ActionMethod(a)
       IN  IF orders[o] = Absent
           THEN /\ last' = Response(r, "action", o, m, None, 404)
                /\ UNCHANGED <<wk, started>>
           ELSE IF m = "unsupported"
           THEN /\ last' = Response(r, "action", o, m, orders[o].status, 400)
                /\ UNCHANGED <<wk, started>>
           ELSE IF ~GuardOk(m, orders[o].status)
           THEN /\ last' = Response(r, "action", o, m, orders[o].status, 409)
                /\ UNCHANGED <<wk, started>>
           ELSE /\ started < MaxRequests
                /\ started' = started + 1
                /\ wk' = [wk EXCEPT ![r] =
                      [IdleWorker EXCEPT !.pc = "intx", !.kind = "action",
                           !.order = o, !.method = m, !.reason = reason,
                           !.seen = orders[o].status,
                           !.obj = Mutate(orders[o], m, by, clock, reason)]]
                /\ last' = last
    /\ UNCHANGED <<relay, orders, dinners, ledger, channel, nextId, rowLock,
                   couponLock, coupons, memberships, history, clock>>

\* save() outside any transaction block: the UPDATE commits on its own and
\* its notification leaves at once
ActionSaveAutocommit(r) ==
    /\ wk[r].pc = "intx"
    /\ rowLock[wk[r].order] = 0
    /\ LET o == wk[r].order
           new == ApplyUpdate(orders[o], wk[r].obj, UpdateFields(wk[r].method))
       IN  /\ orders' = [orders EXCEPT ![o] = new]
           /\ channel' = Append(channel, OrdersNotify("UPDATE", o, new))
           /\ rowLock' = [rowLock EXCEPT ![o] = r]
           /\ wk' = [wk EXCEPT ![r].pc = "saved", ![r].tx.order = new,
                      ![r].tx.hooks = Append(@,
                          HookPayload(wk[r].method, o, wk[r].obj, wk[r].reason))]
    /\ UNCHANGED <<relay, dinners, ledger, nextId, couponLock, coupons, memberships,
                   history, clock, started, last>>

\* self.save(update_fields=...): the UPDATE takes the row lock, writes the
\* listed columns over the current row and fires trg_orders_notify_upd;
\* then _notify registers its on_commit hook
ActionSave(r) ==
    /\ wk[r].pc = "intx"
    /\ rowLock[wk[r].order] = 0
    /\ LET o == wk[r].order
           new == ApplyUpdate(orders[o], wk[r].obj, UpdateFields(wk[r].method))
       IN  /\ rowLock' = [rowLock EXCEPT ![o] = r]
           /\ wk' = [wk EXCEPT ![r].pc = "saved",
                      ![r].tx.order = new,
                      ![r].tx.notify = Append(@, OrdersNotify("UPDATE", o, new)),
                      ![r].tx.hooks = Append(@,
                          HookPayload(wk[r].method, o, wk[r].obj, wk[r].reason))]
    /\ UNCHANGED <<relay, orders, dinners, ledger, channel, nextId, couponLock,
                   coupons, memberships, history, clock, started, last>>

\* save() or the commit raises: atomic() rolls back, the view answers 409
ActionAbort(r) ==
    /\ wk[r].pc \in {"intx", "saved"}
    /\ rowLock' = [o \in OrderIds |-> IF rowLock[o] = r THEN 0 ELSE rowLock[o]]
    /\ wk' = [wk EXCEPT ![r] = IdleWorker]
    /\ last' = Response(r, "action", wk[r].order, wk[r].method, wk[r].seen, 409)
    /\ UNCHANGED <<relay, orders, dinners, ledger, channel, nextId, couponLock,
                   coupons, memberships, history, clock, started>>

\* a commit after which the server delivers nothing
ActionCommitDropNotify(r) ==
    /\ wk[r].pc = "saved"
    /\ LET o == wk[r].order
       IN  /\ orders' = [orders EXCEPT ![o] = wk[r].tx.order]
           /\ rowLock' = [rowLock EXCEPT ![o] = 0]
           /\ history' = Append(history,
                  [order |-> o, event |-> wk[r].method,
                   status |-> wk[r].tx.order.status])
           /\ wk' = [wk EXCEPT ![r].pc = "committed",
                               ![r].tx.order = Absent, ![r].tx.notify = <<>>]
    /\ UNCHANGED <<relay, dinners, ledger, channel, nextId, couponLock, coupons,
                   memberships, clock, started, last>>

\* leaving atomic(): the row becomes visible, the server delivers the
\* notifications queued by the trigger, the lock is released
ActionCommit(r) ==
    /\ wk[r].pc = "saved"
    /\ LET o == wk[r].order
       IN  /\ orders' = [orders EXCEPT ![o] = wk[r].tx.order]
           /\ channel' = channel \o wk[r].tx.notify
           /\ rowLock' = [rowLock EXCEPT ![o] = 0]
           /\ history' = Append(history,
                  [order |-> o, event |-> wk[r].method,
                   status |-> wk[r].tx.order.status])
           /\ wk' = [wk EXCEPT ![r].pc = "committed",
                               ![r].tx.order = Absent, ![r].tx.notify = <<>>]
    /\ UNCHANGED <<relay, dinners, ledger, nextId, couponLock, coupons, memberships,
                   clock, started, last>>

\* the on_commit hooks run after the commit: _do_notify calls pg_notify
ActionRunHooks(r) ==
    /\ wk[r].pc = "committed"
    /\ wk[r].kind = "action"
    /\ channel' = channel \o wk[r].tx.hooks
    /\ wk' = [wk EXCEPT ![r] = IdleWorker]
    /\ last' = Response(r, "action", wk[r].order, wk[r].method, wk[r].seen, 200)
    /\ UNCHANGED <<relay, orders, dinners, ledger, nextId, rowLock, couponLock,
                   coupons, memberships, history, clock, started>>

\* ------------------------------------------------ sequential request handling
Customers == {1, 2}

OthersIdle(r) == \A q \in Workers \ {r} : wk[q].pc = "idle"

\* the request body's reason is read by cancel only
ReasonsFor(a) == IF ActionMethod(a) = "cancel" THEN Reasons ELSE {None}

\* the action strings of the endpoint's documentation
MethodStrings == {"accept", "mark-ready", "out-for-delivery", "deliver", "cancel"}

SeqInit ==
    /\ orders = [o \in OrderIds |-> IF o = 1 THEN NewOrderRow(1, "GUI") ELSE Absent]
    /\ dinners = [o \in OrderIds |-> Absent]
    /\ ledger = <<>>
    /\ channel = <<>>
    /\ nextId = MaxOrders + 1
    /\ rowLock = [o \in OrderIds |-> 0]
    /\ couponLock = <<>>
    /\ coupons = <<>>
    /\ memberships = [c \in Customers |-> Absent]
    /\ wk = [r \in Workers |-> IdleWorker]
    /\ history = <<>>
    /\ clock = 0
    /\ started = 0
    /\ last = NoResponse
    /\ relay = [s \in Subscribers |-> RelayStart]

SeqNext ==
    \/ \E r \in Workers, o \in OrderIds, a \in ActionStrings, by \in StaffIds :
         \E reason \in ReasonsFor(a) :
          OthersIdle(r) /\ ActionBegin(r, o, a, by, reason)
    \/ \E r \in Workers : ActionSave(r)
    \/ \E r \in Workers : ActionAbort(r)
    \/ \E r \in Workers : ActionCommit(r)
    \/ \E r \in Workers : ActionRunHooks(r)

SeqSpec == SeqInit /\ [][SeqNext]_vars

\* ------------------------------------------------------------ money rounding
\* Decimal(n/d).quantize(Decimal("1"), ROUND_HALF_UP), d > 0: halves go away
\* from zero
RoundHalfUp(n, d) ==
    IF n >= 0 THEN (2 * n + d) \div (2 * d)
    ELSE 0 - ((2 * (0 - n) + d) \div (2 * d))

Min(a, b) == IF a <= b THEN a ELSE b
Max(a, b) == IF a >= b THEN a ELSE b

\* ------------------------------------------------------- catalog snapshot
\* Read-only catalog rows the order endpoints consume. Quantities are in
\* hundredths (decimal_places=2), multipliers in thousandths
\* (decimal_places=3), ServingStyle.price_value in hundredths.
DinnerTypes ==
    [valentine |-> [base_price_cents |-> 1000, active |-> TRUE],
     retired   |-> [base_price_cents |-> 800,  active |-> FALSE]]

ServingStyles ==
    [simple |-> [price_mode |-> "addon",      price_value |-> 200],
     grand  |-> [price_mode |-> "multiplier", price_value |-> 120],
     deluxe |-> [price_mode |-> "multiplier", price_value |-> 150]]

DinnerStyleAllowed == {<<"valentine", "simple">>, <<"valentine", "grand">>}

\* dinner_option joined with its group: option_id -> row
DinnerOptions ==
    [i \in 1..5 |->
       CASE i = 1 -> [dinner |-> "valentine", price_mode |-> "multiplier",
                      price_delta_cents |-> 0, multiplier |-> 1100,
                      group |-> "size", name |-> "large"]
         [] i = 2 -> [dinner |-> "valentine", price_mode |-> "multiplier",
                      price_delta_cents |-> 0, multiplier |-> 1505,
                      group |-> "size", name |-> "party"]
         [] i = 3 -> [dinner |-> "valentine", price_mode |-> "addon",
                      price_delta_cents |-> 50, multiplier |-> Null,
                      group |-> "extras", name |-> "candles"]
         [] i = 4 -> [dinner |-> "retired", price_mode |-> "addon",
                      price_delta_cents |-> 30, multiplier |-> Null,
                      group |-> "extras", name |-> "flowers"]
         [] OTHER -> [dinner |-> "valentine", price_mode |-> "multiplier",
                      price_delta_cents |-> 0, multiplier |-> 1255,
                      group |-> "size", name |-> "feast"]]

MenuItems ==
    [cake  |-> [item_id |-> 1, base_price_cents |-> 250, active |-> TRUE],
     steak |-> [item_id |-> 2, base_price_cents |-> 505, active |-> TRUE],
     soup  |-> [item_id |-> 3, base_price_cents |-> 100, active |-> FALSE],
     wine  |-> [item_id |-> 4, base_price_cents |-> 300, active |-> TRUE]]

\* item_option joined with its group, in Meta.ordering (rank, option_id)
ItemOptions ==
    [i \in 1..5 |->
       CASE i = 1 -> [item_id |-> 4, price_mode |-> "addon",
                      price_delta_cents |-> 20, multiplier |-> Null,
                      group |-> "extras", name |-> "ice"]
         [] i = 2 -> [item_id |-> 4, price_mode |-> "multiplier",
                      price_delta_cents |-> 0, multiplier |-> 1500,
                      group |-> "size", name |-> "magnum"]
         [] i = 3 -> [item_id |-> 2, price_mode |-> "multiplier",
                      price_delta_cents |-> 0, multiplier |-> 1105,
                      group |-> "size", name |-> "double"]
         [] i = 4 -> [item_id |-> 2, price_mode |-> "multiplier",
                      price_delta_cents |-> 0, multiplier |-> 1155,
                      group |-> "cut", name |-> "aged"]
         [] OTHER -> [item_id |-> 1, price_mode |-> "multiplier",
                      price_delta_cents |-> 0, multiplier |-> 1200,
                      group |-> "size", name |-> "large"]]

\* dinner_type_default_item of a dinner, ordered by item name
DefaultItems(dinner) ==
    IF dinner = "valentine"
    THEN << [item |-> "steak", default_qty |-> 200, included_in_base |-> TRUE],
            [item |-> "wine",  default_qty |-> 100, included_in_base |-> FALSE] >>
    ELSE << >>

\* ---------------------------------------------------- services/pricing.py
\* validate_style_allowed
StyleAllowed(dinner, style) == <<dinner, style>> \in DinnerStyleAllowed

\* apply_style_to_base: <<unit after the style, style adjustment>>
ApplyStyleToBase(dinner, style) ==
    LET base == DinnerTypes[dinner].base_price_cents
        st == ServingStyles[style]
    IN  IF st.price_mode = "addon"
        THEN << RoundHalfUp(base * 100 + st.price_value, 100),
                RoundHalfUp(st.price_value, 100) >>
        ELSE LET new_base == RoundHalfUp(base * st.price_value, 100)
             IN  << new_base, new_base - base >>

\* resolve_dinner_options_for_dinner: the ids that name an option of this
\* dinner; the query has no ORDER BY, so the rows come back in an order the
\* database picks
ValidDinnerOptionIds(dinner, opt_ids) ==
    {i \in Range(opt_ids) : i \in DOMAIN DinnerOptions /\ DinnerOptions[i].dinner = dinner}

DinnerOptionsResolve(dinner, opt_ids) ==
    opt_ids = <<>> \/ Cardinality(ValidDinnerOptionIds(dinner, opt_ids))
                         = Cardinality(Range(opt_ids))

Orderings(S) ==
    {q \in [1..Cardinality(S) -> S] : \A i, j \in DOMAIN q : i # j => q[i] # q[j]}

\* the multiplier of an option row, 1 when null or zero
MultiplierOf(row) ==
    IF row.multiplier = Null \/ row.multiplier = 0 THEN 1000 ELSE row.multiplier

\* a chain that takes every multiplier delta on the style-adjusted base
RECURSIVE DinnerOptionChainOnBase(_, _, _)
DinnerOptionChainOnBase(unit, ids, deltas) ==
    IF ids = <<>> THEN [unit |-> unit, deltas |-> deltas]
    ELSE LET dop == DinnerOptions[Head(ids)]
             delta == IF dop.price_mode = "addon"
                      THEN dop.price_delta_cents
                      ELSE RoundHalfUp((unit - SeqSum(deltas)) * (MultiplierOf(dop) - 1000), 1000)
         IN  DinnerOptionChainOnBase(unit + delta, Tail(ids), Append(deltas, delta))

\* OrderListCreateAPIView.post: the dinner-option loop; each delta is taken
\* on the running unit price
RECURSIVE DinnerOptionChain(_, _, _)
DinnerOptionChain(unit, ids, deltas) ==
    IF ids = <<>> THEN [unit |-> unit, deltas |-> deltas]
    ELSE LET dop == DinnerOptions[Head(ids)]
             delta == IF dop.price_mode = "addon"
                      THEN dop.price_delta_cents
                      ELSE RoundHalfUp(unit * (MultiplierOf(dop) - 1000), 1000)
         IN  DinnerOptionChain(unit + delta, Tail(ids), Append(deltas, delta))

\* validate_item_options_for_item: the selected rows in Meta ordering, or the
\* ids that belong to another item
SelectedItemOptions(option_ids) ==
    SelectSeq([i \in DOMAIN ItemOptions |-> i], LAMBDA i : i \in Range(option_ids))

BadItemOptions(item, option_ids) ==
    SelectSeq(SelectedItemOptions(option_ids),
              LAMBDA i : ItemOptions[i].item_id # MenuItems[item].item_id)

\* an accumulation that rounds the running price after every multiplier
RECURSIVE CalcItemAccPerOption(_, _, _, _, _)
CalcItemAccPerOption(base, opts, addon, num, den) ==
    IF opts = <<>> THEN base + addon
    ELSE LET o == ItemOptions[Head(opts)]
         IN  IF o.price_mode = "addon"
             THEN CalcItemAccPerOption(base, Tail(opts), addon + o.price_delta_cents, num, den)
             ELSE CalcItemAccPerOption(RoundHalfUp((base + addon) * MultiplierOf(o), 1000),
                                       Tail(opts), 0, num, den)

\* calc_item_unit_cents: addons are summed, multipliers multiplied, one
\* rounding at the end; the snapshots it returns
RECURSIVE CalcItemAcc(_, _, _, _, _)
CalcItemAcc(base, opts, addon, num, den) ==
    IF opts = <<>> THEN RoundHalfUp((base + addon) * num, den)
    ELSE LET o == ItemOptions[Head(opts)]
         IN  IF o.price_mode = "addon"
             THEN CalcItemAcc(base, Tail(opts), addon + o.price_delta_cents, num, den)
             ELSE CalcItemAcc(base, Tail(opts), addon,
                              num * MultiplierOf(o), den * 1000)

CalcItemSnaps(opts) ==
    [k \in DOMAIN opts |->
        LET o == ItemOptions[opts[k]]
        IN  IF o.price_mode = "addon"
            THEN [option_group_name |-> o.group, option_name |-> o.name,
                  price_delta_cents |-> o.price_delta_cents, multiplier |-> Null]
            ELSE [option_group_name |-> o.group, option_name |-> o.name,
                  price_delta_cents |-> 0, multiplier |-> MultiplierOf(o)]]

CalcItemUnitCents(item, opts) ==
    [unit |-> CalcItemAcc(MenuItems[item].base_price_cents, opts, 0, 1, 1),
     snaps |-> CalcItemSnaps(opts)]

\* ---------------------------------------- OrderListCreateAPIView.post: lines
\* the OrderDinnerItem rows created for the dinner's default items
DefaultLines(dinner) ==
    [k \in DOMAIN DefaultItems(dinner) |->
        LET di == DefaultItems(dinner)[k]
        IN  [item |-> di.item, final_qty |-> di.default_qty,
             unit_price_cents |-> IF di.included_in_base THEN 0
                                  ELSE MenuItems[di.item].base_price_cents,
             is_default |-> TRUE, change_type |-> "unchanged",
             options |-> << >>]]

\* position of the line of an item, 0 when there is none
LineIndex(lines, item) ==
    IF \E k \in DOMAIN lines : lines[k].item = item
    THEN CHOOSE k \in DOMAIN lines : lines[k].item = item
    ELSE 0

\* the default_overrides loop; it returns at the first invalid override and
\* the overrides saved before it stay written
RECURSIVE ApplyOverrides(_, _, _)
ApplyOverrides(dinner, lines, ovs) ==
    IF ovs = << >> THEN [ok |-> TRUE, lines |-> lines]
    ELSE LET ov == Head(ovs)
             defs == DefaultItems(dinner)
             k == IF \E j \in DOMAIN defs : defs[j].item = ov.code
                  THEN CHOOSE j \in DOMAIN defs : defs[j].item = ov.code
                  ELSE 0
         IN  IF k = 0 THEN [ok |-> FALSE, lines |-> lines]
             ELSE IF ov.qty < 0 \/ ov.qty > defs[k].default_qty
             THEN [ok |-> FALSE, lines |-> lines]
             ELSE ApplyOverrides(dinner,
                    [lines EXCEPT ![k].final_qty = ov.qty,
                                  ![k].change_type =
                                      IF ov.qty = 0 THEN "removed"
                                      ELSE IF ov.qty < defs[k].default_qty
                                      THEN "decreased" ELSE "unchanged"],
                    Tail(ovs))

\* the OrderItemOption rows written for the snapshots of one request item
PersistSnaps(snaps) ==
    [k \in DOMAIN snaps |->
        [option_group_name |-> snaps[k].option_group_name,
         option_name |-> snaps[k].option_name,
         price_delta_cents |-> snaps[k].price_delta_cents,
         multiplier |-> Null]]

\* the items loop with get_or_create per (order_dinner, item); it returns at
\* the first invalid item and the lines written before it stay written
RECURSIVE AddItems(_, _, _)
AddItems(lines, items, subtotal) ==
    IF items = << >> THEN [ok |-> TRUE, lines |-> lines, subtotal |-> subtotal]
    ELSE LET it == Head(items)
         IN  IF it.code \notin DOMAIN MenuItems
             THEN [ok |-> FALSE, lines |-> lines, subtotal |-> subtotal]
             ELSE IF ~MenuItems[it.code].active
             THEN [ok |-> FALSE, lines |-> lines, subtotal |-> subtotal]
             ELSE IF BadItemOptions(it.code, it.options) # << >>
             THEN [ok |-> FALSE, lines |-> lines, subtotal |-> subtotal]
             ELSE LET calc == CalcItemUnitCents(it.code, SelectedItemOptions(it.options))
                      line_sub == RoundHalfUp(calc.unit * it.qty, 100)
                      k == LineIndex(lines, it.code)
                      kk == IF k = 0 THEN Len(lines) + 1 ELSE k
                      merged ==
                          IF k = 0
                          THEN Append(lines,
                                 [item |-> it.code, final_qty |-> it.qty,
                                  unit_price_cents |-> calc.unit,
                                  is_default |-> FALSE, change_type |-> "added",
                                  options |-> << >>])
                          ELSE [lines EXCEPT
                                  ![k].final_qty = @ + it.qty,
                                  ![k].change_type =
                                      IF lines[k].is_default /\ @ = "unchanged"
                                      THEN "added" ELSE @]
                  IN  AddItems([merged EXCEPT ![kk].options = @ \o PersistSnaps(calc.snaps)],
                               Tail(items), subtotal + line_sub)

\* the OrderDinnerOption rows: the resolved delta, multiplier fixed to null
DinnerOptionSnaps(ids, deltas) ==
    [k \in DOMAIN ids |->
        [option_group_name |-> DinnerOptions[ids[k]].group,
         option_name |-> DinnerOptions[ids[k]].name,
         price_delta_cents |-> deltas[k], multiplier |-> Null]]

\* everything post() does between the INSERT of the order row and the
\* discount evaluation: validation, pricing and the rows written so far.
\* dopts is the order in which the database returned the dinner options.
PriceOrder(in, dopts) ==
    LET d == in.dinner
        fail == [ok |-> FALSE, dinner |-> Absent, subtotal |-> 0]
    IN  IF d.code \notin DOMAIN DinnerTypes THEN fail
        ELSE IF ~DinnerTypes[d.code].active THEN fail
        ELSE IF d.style \notin DOMAIN ServingStyles THEN fail
        ELSE IF ~StyleAllowed(d.code, d.style) THEN fail
        ELSE IF ~DinnerOptionsResolve(d.code, d.dinner_options) THEN fail
        ELSE LET st == ApplyStyleToBase(d.code, d.style)
                 qty == IF d.quantity = 0 THEN 100 ELSE d.quantity
                 chain == DinnerOptionChain(st[1], dopts, << >>)
                 dinner_subtotal == RoundHalfUp(chain.unit * qty, 100)
                 row == [dinner_type |-> d.code, style |-> d.style,
                         quantity |-> qty,
                         base_price_cents |-> DinnerTypes[d.code].base_price_cents,
                         style_adjust_cents |-> st[2],
                         options |-> DinnerOptionSnaps(dopts, chain.deltas),
                         items |-> << >>]
                 ov == ApplyOverrides(d.code, DefaultLines(d.code), d.default_overrides)
                 ai == AddItems(ov.lines, in.items, dinner_subtotal)
             IN  IF ~ov.ok
                 THEN [ok |-> FALSE, dinner |-> [row EXCEPT !.items = ov.lines],
                       subtotal |-> dinner_subtotal]
                 ELSE [ok |-> ai.ok, dinner |-> [row EXCEPT !.items = ai.lines],
                       subtotal |-> ai.subtotal]

\* ------------------------------------------------- promotion/services.py
\* Coupon codes are texts, modelled as sequences of characters.
UpperChar(c) == CASE c = "a" -> "A" [] c = "b" -> "B" [] c = "c" -> "C" [] OTHER -> c

Upper(code) == [i \in DOMAIN code |-> UpperChar(code[i])]

RECURSIVE Strip(_)
Strip(code) ==
    IF code = << >> THEN code
    ELSE IF Head(code) = " " THEN Strip(Tail(code))
    ELSE IF code[Len(code)] = " " THEN Strip(SubSeq(code, 1, Len(code) - 1))
    ELSE code

\* _normalize_codes: upper-cased and stripped, blank entries dropped
NormalizeCodes(codes) ==
    LET kept == SelectSeq(codes, LAMBDA c : Strip(c) # << >>)
    IN  [i \in DOMAIN kept |-> Strip(Upper(kept[i]))]

\* Coupon.is_valid_now / Membership.is_valid_now
IsValidNow(row, now) ==
    /\ row.active
    /\ ~(row.valid_from # Null /\ now < row.valid_from)
    /\ ~(row.valid_until # Null /\ now > row.valid_until)

\* CouponRedemption.objects.filter(...).count()
CountCoupon(rows, code) ==
    Cardinality({i \in DOMAIN rows : rows[i].coupon = code})

CountCouponUser(rows, code, cust) ==
    Cardinality({i \in DOMAIN rows : rows[i].coupon = code /\ rows[i].customer = cust})

ExistsCouponOrder(rows, code, o) ==
    \E i \in DOMAIN rows : rows[i].coupon = code /\ rows[i].order = o

\* _membership_line: the amount of the membership line, 0 when there is none
\* (percent_off is kept in hundredths of a percent)
MembershipAmount(mbs, cust, subtotal, now) ==
    IF cust = 0 \/ cust \notin DOMAIN mbs THEN 0
    ELSE IF mbs[cust] = Absent THEN 0
    ELSE IF ~IsValidNow(mbs[cust], now) THEN 0
    ELSE Max(0, RoundHalfUp(subtotal * mbs[cust].percent_off, 10000))

\* _coupon_amount (value is kept in hundredths)
CouponAmount(c, base) ==
    LET amt == IF c.kind = "percent" THEN RoundHalfUp(base * c.value, 10000)
               ELSE RoundHalfUp(c.value, 100)
        capped == IF c.max_discount_cents # Null
                  THEN Min(amt, c.max_discount_cents) ELSE amt
    IN  Max(0, capped)

\* the eligibility tests of the candidate loop of evaluate_discounts
CouponEligible(cps, rows, code, subtotal, cust, chan, hasMembership, now) ==
    /\ code \in DOMAIN cps
    /\ IsValidNow(cps[code], now)
    /\ cps[code].channel \in {"ANY", chan}
    /\ ~(cps[code].min_subtotal_cents # Null /\ subtotal < cps[code].min_subtotal_cents)
    /\ ~(cps[code].max_redemptions_per_user # Null /\ cust # 0
           /\ CountCouponUser(rows, code, cust) >= cps[code].max_redemptions_per_user)
    /\ ~(cps[code].max_redemptions_global # Null
           /\ CountCoupon(rows, code) >= cps[code].max_redemptions_global)
    /\ ~(hasMembership /\ ~cps[code].stackable_with_membership)

CouponLine(code, amt) == [type |-> "coupon", code |-> code, amount_cents |-> amt]

MembershipLine(amt) == [type |-> "membership", code |-> << >>, amount_cents |-> amt]

LineAmounts(lines) == [i \in DOMAIN lines |-> lines[i].amount_cents]

\* a pick of the lowest amount where the code picks the highest
BestEligibleLowest(el) ==
    CHOOSE i \in DOMAIN el :
        /\ \A j \in DOMAIN el : el[j].amount >= el[i].amount
        /\ \A j \in 1..(i - 1) : el[j].amount > el[i].amount

\* max(eligible, key=amount): the position of the first pair with the
\* highest amount
BestEligible(el) ==
    CHOOSE i \in DOMAIN el :
        /\ \A j \in DOMAIN el : el[j].amount <= el[i].amount
        /\ \A j \in 1..(i - 1) : el[j].amount < el[i].amount

\* evaluate_discounts: membership first, then the coupons; rows is the
\* redemption table as the caller's transaction sees it
EvaluateDiscounts(cps, mbs, rows, subtotal, cust, chan, coupon_codes, now) ==
    LET mAmt == MembershipAmount(mbs, cust, subtotal, now)
        hasM == mAmt > 0
        running0 == IF hasM THEN subtotal - mAmt ELSE subtotal
        base == IF hasM THEN << MembershipLine(mAmt) >> ELSE << >>
        codes == NormalizeCodes(coupon_codes)
        \* eligible[i]: the (coupon, amount) pairs kept among codes[1..i];
        \* every amount is taken on the running total after membership
        eligible[i \in 0..Len(codes)] ==
            IF i = 0 THEN << >>
            ELSE IF /\ CouponEligible(cps, rows, codes[i], subtotal, cust,
                                      chan, hasM, now)
                    /\ CouponAmount(cps[codes[i]], running0) > 0
                 THEN Append(eligible[i - 1],
                        [code |-> codes[i],
                         amount |-> CouponAmount(cps[codes[i]], running0)])
                 ELSE eligible[i - 1]
        el == eligible[Len(codes)]
        best == BestEligible(el)
        \* stacked[i]: running total and coupon lines after el[1..i]
        stacked[i \in 0..Len(el)] ==
            IF i = 0 THEN [running |-> running0, lines |-> << >>]
            ELSE LET prev == stacked[i - 1]
                     amt == Min(el[i].amount, prev.running)
                 IN  IF amt <= 0 THEN prev
                     ELSE [running |-> prev.running - amt,
                           lines |-> Append(prev.lines, CouponLine(el[i].code, amt))]
        applied ==
            IF el = << >> THEN [running |-> running0, lines |-> << >>]
            ELSE IF \E i \in DOMAIN el : ~cps[el[i].code].stackable_with_coupons
            THEN LET apply_amt == Min(el[best].amount, running0)
                 IN  [running |-> running0 - apply_amt,
                      lines |-> << CouponLine(el[best].code, apply_amt) >>]
            ELSE stacked[Len(el)]
        discounts == base \o applied.lines
    IN  [discounts |-> discounts,
         total_discount |-> SeqSum(LineAmounts(discounts)),
         total_after |-> applied.running,
         running_after_membership |-> running0]

\* redeem_discounts: per_code, the amounts of the coupon lines merged by
\* upper-cased code, in first-appearance order
PerCodeKeys(discounts) ==
    LET keep[i \in 0..Len(discounts)] ==
            IF i = 0 THEN << >>
            ELSE IF /\ discounts[i].type = "coupon"
                    /\ discounts[i].code # << >>
                    /\ Upper(discounts[i].code) \notin Range(keep[i - 1])
                 THEN Append(keep[i - 1], Upper(discounts[i].code))
                 ELSE keep[i - 1]
    IN  keep[Len(discounts)]

PerCodeAmount(discounts, code) ==
    SeqSum([i \in DOMAIN discounts |->
               IF discounts[i].type = "coupon" /\ Upper(discounts[i].code) = code
               THEN discounts[i].amount_cents ELSE 0])

\* the loop without the test for a redemption of the order, on a table
\* without uq_coupon_order_once
RedeemOneNoOnceCheck(cps, rows, code, amt, o, cust, chan, now) ==
    IF code \notin DOMAIN cps THEN [err |-> FALSE, rows |-> << >>]
    ELSE IF ~IsValidNow(cps[code], now) THEN [err |-> FALSE, rows |-> << >>]
    ELSE IF cps[code].channel \notin {"ANY", chan} THEN [err |-> FALSE, rows |-> << >>]
    ELSE IF /\ cps[code].max_redemptions_per_user # Null
            /\ CountCouponUser(rows, code, cust) >= cps[code].max_redemptions_per_user
    THEN [err |-> FALSE, rows |-> << >>]
    ELSE IF /\ cps[code].max_redemptions_global # Null
            /\ CountCoupon(rows, code) >= cps[code].max_redemptions_global
    THEN [err |-> FALSE, rows |-> << >>]
    ELSE [err |-> FALSE,
          rows |-> << [coupon |-> code, customer |-> cust, order |-> o,
                       amount_cents |-> amt, channel |-> chan] >>]

\* the loop without the fresh counts against the two caps
RedeemOneNoRecheck(cps, rows, code, amt, o, cust, chan, now) ==
    IF code \notin DOMAIN cps THEN [err |-> FALSE, rows |-> << >>]
    ELSE IF ~IsValidNow(cps[code], now) THEN [err |-> FALSE, rows |-> << >>]
    ELSE IF cps[code].channel \notin {"ANY", chan} THEN [err |-> FALSE, rows |-> << >>]
    ELSE IF ExistsCouponOrder(rows, code, o) THEN [err |-> FALSE, rows |-> << >>]
    ELSE [err |-> FALSE,
          rows |-> << [coupon |-> code, customer |-> cust, order |-> o,
                       amount_cents |-> amt, channel |-> chan] >>]

\* the loop raising where the code skips: a coupon over one of its caps
\* makes the INSERT path fail
RedeemOneRaiseOnCap(cps, rows, code, amt, o, cust, chan, now) ==
    IF code \notin DOMAIN cps THEN [err |-> FALSE, rows |-> << >>]
    ELSE IF ~IsValidNow(cps[code], now) THEN [err |-> FALSE, rows |-> << >>]
    ELSE IF cps[code].channel \notin {"ANY", chan} THEN [err |-> FALSE, rows |-> << >>]
    ELSE IF /\ cps[code].max_redemptions_per_user # Null
            /\ CountCouponUser(rows, code, cust) >= cps[code].max_redemptions_per_user
    THEN [err |-> TRUE, rows |-> << >>]
    ELSE IF /\ cps[code].max_redemptions_global # Null
            /\ CountCoupon(rows, code) >= cps[code].max_redemptions_global
    THEN [err |-> TRUE, rows |-> << >>]
    ELSE IF ExistsCouponOrder(rows, code, o) THEN [err |-> FALSE, rows |-> << >>]
    ELSE [err |-> FALSE,
          rows |-> << [coupon |-> code, customer |-> cust, order |-> o,
                       amount_cents |-> amt, channel |-> chan] >>]

\* one turn of the redemption loop, under the coupon's row lock: re-validate
\* against the rows visible now, skip a coupon already redeemed for the
\* order, else INSERT (uq_coupon_order_once rejects a second row)
RedeemOne(cps, rows, code, amt, o, cust, chan, now) ==
    IF code \notin DOMAIN cps THEN [err |-> FALSE, rows |-> << >>]
    ELSE IF ~IsValidNow(cps[code], now) THEN [err |-> FALSE, rows |-> << >>]
    ELSE IF cps[code].channel \notin {"ANY", chan} THEN [err |-> FALSE, rows |-> << >>]
    ELSE IF /\ cps[code].max_redemptions_per_user # Null
            /\ CountCouponUser(rows, code, cust) >= cps[code].max_redemptions_per_user
    THEN [err |-> FALSE, rows |-> << >>]
    ELSE IF /\ cps[code].max_redemptions_global # Null
            /\ CountCoupon(rows, code) >= cps[code].max_redemptions_global
    THEN [err |-> FALSE, rows |-> << >>]
    ELSE IF ExistsCouponOrder(rows, code, o) THEN [err |-> FALSE, rows |-> << >>]
    ELSE [err |-> ExistsCouponOrder(rows, code, o),
          rows |-> << [coupon |-> code, customer |-> cust, order |-> o,
                       amount_cents |-> amt, channel |-> chan] >>]

\* redeem_discounts after select_for_update: the rows it inserts, or err
\* when an INSERT raised
RedeemDiscounts(cps, rows, o, cust, chan, discounts, now) ==
    LET keys == PerCodeKeys(discounts)
        loop[i \in 0..Len(keys)] ==
            IF i = 0 THEN [err |-> FALSE, rows |-> << >>]
            ELSE LET prev == loop[i - 1]
                     one == RedeemOne(cps, rows \o prev.rows, keys[i],
                                      PerCodeAmount(discounts, keys[i]),
                                      o, cust, chan, now)
                 IN  IF prev.err THEN prev
                     ELSE [err |-> one.err, rows |-> prev.rows \o one.rows]
    IN  loop[Len(keys)]

\* --------------------------------- OrderListCreateAPIView.post, step by step
\* the redemption table as the transaction of worker r sees it
VisibleLedger(r) == ledger \o wk[r].tx.ledger

ReleaseLocks(locks, r) == [k \in DOMAIN locks |-> IF locks[k] = r THEN 0 ELSE locks[k]]

\* Customer lookup, INSERT of the order row (trg_orders_notify_ins fires
\* inside the transaction), then validation, pricing and the dinner,
\* option and line rows, up to the discount evaluation
CreateBegin(r, in, dopts) ==
    /\ wk[r].pc = "idle"
    /\ IF in.customer_id \notin Customers
       THEN /\ last' = Response(r, "create", 0, None, None, 400)
            /\ UNCHANGED <<wk, nextId, started>>
       ELSE /\ started < MaxRequests
            /\ nextId <= MaxOrders
            /\ started' = started + 1
            /\ LET o == nextId
                   row == NewOrderRow(in.customer_id, in.order_source)
                   p == PriceOrder(in, dopts)
               IN  wk' = [wk EXCEPT ![r] =
                      [IdleWorker EXCEPT
                          !.pc = IF p.ok THEN "c_priced" ELSE "c_failed",
                          !.kind = "create", !.order = o, !.in = in,
                          !.eval = [subtotal |-> p.subtotal],
                          !.tx = [NoTx EXCEPT !.order = row, !.dinner = p.dinner,
                                     !.notify = << OrdersNotify("INSERT", o, row) >>]]]
            /\ nextId' = nextId + 1
            /\ last' = last
    /\ UNCHANGED <<relay, orders, dinners, ledger, channel, rowLock, couponLock,
                   coupons, memberships, history, clock>>

\* the writes of a transaction become visible; the server delivers the
\* notifications its triggers queued
CommitWrites(r) ==
    /\ orders' = [orders EXCEPT ![wk[r].order] = wk[r].tx.order]
    /\ dinners' = [dinners EXCEPT ![wk[r].order] = wk[r].tx.dinner]
    /\ ledger' = ledger \o wk[r].tx.ledger
    /\ channel' = channel \o wk[r].tx.notify
    /\ rowLock' = ReleaseLocks(rowLock, r)
    /\ couponLock' = ReleaseLocks(couponLock, r)

\* a validation branch returns Response(status=400): the function decorated
\* with transaction.atomic returns normally, so the transaction commits
CreateReturn400(r) ==
    /\ wk[r].pc = "c_failed"
    /\ CommitWrites(r)
    /\ history' = Append(history, [order |-> wk[r].order, event |-> "create",
                                   status |-> wk[r].tx.order.status])
    /\ wk' = [wk EXCEPT ![r] = IdleWorker]
    /\ last' = Response(r, "create", wk[r].order, None, None, 400)
    /\ UNCHANGED <<relay, nextId, coupons, memberships, clock, started>>

\* evaluate_discounts on the subtotal, reading the redemption counts, then
\* order.save(update_fields=[totals, meta]); the UPDATE fires
\* trg_orders_notify_upd; a negative value in a PositiveIntegerField column
\* makes the UPDATE raise
CreateEvaluate(r) ==
    /\ wk[r].pc = "c_priced"
    /\ \E res \in { EvaluateDiscounts(coupons, memberships, VisibleLedger(r),
                                      wk[r].eval.subtotal, wk[r].in.customer_id,
                                      wk[r].in.order_source, wk[r].in.coupons,
                                      clock) } :
         LET o == wk[r].order
             ev == [subtotal |-> wk[r].eval.subtotal,
                    discounts |-> res.discounts,
                    total_discount |-> res.total_discount,
                    total_after |-> res.total_after,
                    running_after_membership |-> res.running_after_membership]
             new == [wk[r].tx.order EXCEPT
                        !.subtotal_cents = ev.subtotal,
                        !.discount_cents = ev.total_discount,
                        !.total_cents = ev.total_after,
                        !.meta = [@ EXCEPT !.discounts = ev.discounts]]
         IN  IF res.total_discount < 0 \/ res.total_after < 0
             THEN wk' = [wk EXCEPT ![r].pc = "c_raised", ![r].eval = ev]
             ELSE wk' = [wk EXCEPT ![r].pc = "c_saved", ![r].eval = ev,
                            ![r].tx.order = new,
                            ![r].tx.notify = Append(@, OrdersNotify("UPDATE", o, new))]
    /\ UNCHANGED <<relay, orders, dinners, ledger, channel, nextId, rowLock, couponLock,
                   coupons, memberships, history, clock, started, last>>

\* the coupon rows select_for_update() locks
LockedCodes(discounts) == {c \in Range(PerCodeKeys(discounts)) : c \in DOMAIN coupons}

\* redeem_discounts: lock the coupon rows (waiting for other holders),
\* re-check and INSERT the redemption rows
CreateRedeem(r) ==
    /\ wk[r].pc = "c_saved"
    /\ \A c \in LockedCodes(wk[r].eval.discounts) : couponLock[c] \in {0, r}
    /\ \E res \in { RedeemDiscounts(coupons, VisibleLedger(r), wk[r].order,
                                    wk[r].in.customer_id, wk[r].in.order_source,
                                    wk[r].eval.discounts, clock) } :
           IF res.err
           THEN /\ wk' = [wk EXCEPT ![r] = IdleWorker]
                /\ last' = Response(r, "create", wk[r].order, None, None, 500)
                /\ couponLock' = ReleaseLocks(couponLock, r)
           ELSE /\ wk' = [wk EXCEPT ![r].pc = "c_redeemed",
                                    ![r].tx.ledger = @ \o res.rows]
                /\ couponLock' = [c \in DOMAIN couponLock |->
                       IF c \in LockedCodes(wk[r].eval.discounts) THEN r
                       ELSE couponLock[c]]
                /\ last' = last
    /\ UNCHANGED <<relay, orders, dinners, ledger, channel, nextId, rowLock,
                   coupons, memberships, history, clock, started>>

\* return Response(status=201): the transaction commits
CreateCommit(r) ==
    /\ wk[r].pc = "c_redeemed"
    /\ wk[r].kind = "create"
    /\ CommitWrites(r)
    /\ history' = Append(history, [order |-> wk[r].order, event |-> "create",
                                   status |-> wk[r].tx.order.status])
    /\ wk' = [wk EXCEPT ![r] = IdleWorker]
    /\ last' = Response(r, "create", wk[r].order, None, None, 201)
    /\ UNCHANGED <<relay, nextId, coupons, memberships, clock, started>>

\* an exception leaves post() (the UPDATE above, a database error in a
\* statement or in the commit): everything the transaction wrote and queued
\* is dropped
CreateAbort(r) ==
    /\ wk[r].pc \in {"c_priced", "c_raised", "c_saved", "c_redeemed"}
    /\ wk[r].kind = "create"
    /\ couponLock' = ReleaseLocks(couponLock, r)
    /\ wk' = [wk EXCEPT ![r] = IdleWorker]
    /\ last' = Response(r, "create", wk[r].order, None, None, 500)
    /\ UNCHANGED <<relay, orders, dinners, ledger, channel, nextId, rowLock,
                   coupons, memberships, history, clock, started>>

\* ------------------------------------------------------------ request inputs
CodeA == << "A" >>
CodeB == << "B" >>
CodeC == << "C" >>

\* a promotion_coupon row
CouponRow(kind, value, min_subtotal, max_discount, chan, cap_global, cap_user) ==
    [active |-> TRUE, valid_from |-> Null, valid_until |-> Null,
     kind |-> kind, value |-> value,
     min_subtotal_cents |-> min_subtotal, max_discount_cents |-> max_discount,
     stackable_with_membership |-> TRUE, stackable_with_coupons |-> TRUE,
     channel |-> chan,
     max_redemptions_global |-> cap_global, max_redemptions_per_user |-> cap_user]

\* promotion_coupon rows (value in hundredths): A 10.00 percent up to 90,
\* without caps; B 300.00 fixed from a subtotal of 500 on the GUI channel,
\* one redemption in all; C 50.00 percent, one redemption per customer
CouponTable ==
    [c \in {CodeA, CodeB, CodeC} |->
        CASE c = CodeA -> CouponRow("percent", 1000, Null, 90, "ANY", Null, Null)
          [] c = CodeB -> CouponRow("fixed", 30000, 500, Null, "GUI", 1, Null)
          [] c = CodeC -> CouponRow("percent", 5000, Null, Null, "ANY", Null, 1)]

MembershipRow(pct) ==
    [percent_off |-> pct, active |-> TRUE, valid_from |-> Null, valid_until |-> Null]

DinnerSel(code, style, opts, ovs) ==
    [code |-> code, style |-> style, quantity |-> 100, dinner_options |-> opts,
     default_overrides |-> ovs]

CreateInput(cust, dinner, items, cpns) ==
    [customer_id |-> cust, order_source |-> "GUI", dinner |-> dinner,
     items |-> items, coupons |-> cpns]

PlainDinner == DinnerSel("valentine", "simple", << >>, << >>)

\* the order requests of the lifecycle specification
SpecInputs == { CreateInput(1, PlainDinner, << >>, << >>) }

\* ------------------------------------------- lifecycle with concurrent requests
Init ==
    /\ orders = [o \in OrderIds |-> Absent]
    /\ dinners = [o \in OrderIds |-> Absent]
    /\ ledger = << >>
    /\ channel = << >>
    /\ nextId = 1
    /\ rowLock = [o \in OrderIds |-> 0]
    /\ couponLock = [c \in DOMAIN CouponTable |-> 0]
    /\ coupons = CouponTable
    /\ memberships = [c \in Customers |-> Absent]
    /\ wk = [r \in Workers |-> IdleWorker]
    /\ history = << >>
    /\ clock = 0
    /\ started = 0
    /\ last = NoResponse
    /\ relay = [s \in Subscribers |-> RelayStart]

Next ==
    \/ \E r \in Workers, in \in SpecInputs :
         \E dopts \in Orderings(ValidDinnerOptionIds(in.dinner.code, in.dinner.dinner_options)) :
            CreateBegin(r, in, dopts)
    \/ \E r \in Workers : CreateEvaluate(r)
    \/ \E r \in Workers : CreateRedeem(r)
    \/ \E r \in Workers : CreateCommit(r)
    \/ \E r \in Workers : CreateAbort(r)
    \/ \E r \in Workers, o \in OrderIds, a \in MethodStrings, by \in StaffIds :
            ActionBegin(r, o, a, by, None)
    \/ \E r \in Workers : ActionSave(r)
    \/ \E r \in Workers : ActionAbort(r)
    \/ \E r \in Workers : ActionCommit(r)
    \/ \E r \in Workers : ActionRunHooks(r)

Spec == Init /\ [][Next]_vars

\* --------------------------------------------- redeem_discounts called again
\* A repeated call of redeem_discounts for an order that exists, with the
\* discount lines recorded on it: transaction.atomic opens a transaction,
\* select_for_update locks the coupon rows, the loop re-checks and inserts
RetryRedeem(r, o) ==
    /\ wk[r].pc = "idle"
    /\ started < MaxRequests
    /\ orders[o] # Absent
    /\ \A c \in LockedCodes(orders[o].meta.discounts) : couponLock[c] = 0
    /\ started' = started + 1
    /\ \E res \in { RedeemDiscounts(coupons, ledger, o, orders[o].customer,
                                    orders[o].order_source,
                                    orders[o].meta.discounts, clock) } :
           IF res.err
           THEN /\ last' = Response(r, "redeem", o, None, None, 500)
                /\ UNCHANGED <<wk, couponLock>>
           ELSE /\ wk' = [wk EXCEPT ![r] =
                      [IdleWorker EXCEPT !.pc = "r_redeemed", !.kind = "redeem",
                                         !.order = o, !.tx.ledger = res.rows]]
                /\ couponLock' = [c \in DOMAIN couponLock |->
                       IF c \in LockedCodes(orders[o].meta.discounts) THEN r
                       ELSE couponLock[c]]
                /\ last' = last
    /\ UNCHANGED <<relay, orders, dinners, ledger, channel, nextId, rowLock,
                   coupons, memberships, history, clock>>

\* the repeated call returns: its transaction commits
RetryCommit(r) ==
    /\ wk[r].pc = "r_redeemed"
    /\ ledger' = ledger \o wk[r].tx.ledger
    /\ couponLock' = ReleaseLocks(couponLock, r)
    /\ wk' = [wk EXCEPT ![r] = IdleWorker]
    /\ last' = Response(r, "redeem", wk[r].order, None, None, 200)
    /\ UNCHANGED <<relay, orders, dinners, channel, nextId, rowLock, coupons,
                   memberships, history, clock, started>>

\* ------------------------------------------------ concurrent order creation
Item(code, qty, opts) == [code |-> code, qty |-> qty, options |-> opts]

Override(code, qty) == [code |-> code, qty |-> qty]

\* one request per validation branch of post()
FailingInputs ==
    { CreateInput(1, DinnerSel("nosuch", "simple", << >>, << >>), << >>, << >>),
      CreateInput(1, DinnerSel("retired", "simple", << >>, << >>), << >>, << >>),
      CreateInput(1, DinnerSel("valentine", "nostyle", << >>, << >>), << >>, << >>),
      CreateInput(1, DinnerSel("valentine", "deluxe", << >>, << >>), << >>, << >>),
      CreateInput(1, DinnerSel("valentine", "simple", << 4 >>, << >>), << >>, << >>),
      CreateInput(1, DinnerSel("valentine", "simple", << >>,
                               << Override("steak", 100), Override("cake", 0) >>),
                  << >>, << >>),
      CreateInput(1, DinnerSel("valentine", "simple", << >>,
                               << Override("steak", 300) >>), << >>, << >>),
      CreateInput(1, PlainDinner,
                  << Item("cake", 100, << >>), Item("ghost", 100, << >>) >>, << >>),
      CreateInput(1, PlainDinner, << Item("soup", 100, << >>) >>, << >>),
      CreateInput(1, PlainDinner, << Item("cake", 100, << 1 >>) >>, << >>) }

\* requests that pass every validation: the plain dinner, one with dinner
\* options, an override to zero and a repeated item, and one that adds an
\* item with a multiplier option
ValidInputs ==
    { CreateInput(1, PlainDinner, << >>, << >>),
      CreateInput(2, DinnerSel("valentine", "grand", << 2, 1 >>,
                               << Override("wine", 0) >>),
                  << Item("wine", 150, << 1, 2 >>), Item("wine", 50, << >>) >>,
                  << >>),
      CreateInput(1, PlainDinner, << Item("cake", 200, << 5 >>) >>, << >>),
      CreateInput(9, PlainDinner, << >>, << >>) }

CreateInit ==
    /\ orders = [o \in OrderIds |-> Absent]
    /\ dinners = [o \in OrderIds |-> Absent]
    /\ ledger = << >>
    /\ channel = << >>
    /\ nextId = 1
    /\ rowLock = [o \in OrderIds |-> 0]
    /\ couponLock = [c \in DOMAIN CouponTable |-> 0]
    /\ coupons = CouponTable
    /\ memberships = [c \in Customers |-> Absent]
    /\ wk = [r \in Workers |-> IdleWorker]
    /\ history = << >>
    /\ clock = 0
    /\ started = 0
    /\ last = NoResponse
    /\ relay = [s \in Subscribers |-> RelayStart]

CreateNext ==
    \/ \E r \in Workers, in \in FailingInputs \cup ValidInputs :
         \E dopts \in Orderings(ValidDinnerOptionIds(in.dinner.code, in.dinner.dinner_options)) :
            CreateBegin(r, in, dopts)
    \/ \E r \in Workers : CreateReturn400(r)
    \/ \E r \in Workers : CreateEvaluate(r)
    \/ \E r \in Workers : CreateRedeem(r)
    \/ \E r \in Workers : CreateCommit(r)
    \/ \E r \in Workers : CreateAbort(r)

CreateSpec == CreateInit /\ [][CreateNext]_vars

\* --------------------------------------------- concurrent coupon redemption
\* coupon lists as submitted: one code repeated in lower case, two coupons
CouponLists == { << CodeA, << "a" >> >>, << CodeB, CodeC >> }

PromoInputs ==
    { CreateInput(c, PlainDinner, << >>, l) : c \in Customers, l \in CouponLists }

\* percent_off has max_digits=5, decimal_places=2 and no validator
MembershipPercents == {500, 15000}

PromoInit ==
    /\ orders = [o \in OrderIds |-> Absent]
    /\ dinners = [o \in OrderIds |-> Absent]
    /\ ledger = << >>
    /\ channel = << >>
    /\ nextId = 1
    /\ rowLock = [o \in OrderIds |-> 0]
    /\ couponLock = [c \in DOMAIN CouponTable |-> 0]
    /\ coupons = CouponTable
    /\ \E m \in {Absent} \cup {MembershipRow(p) : p \in MembershipPercents} :
          memberships = [c \in Customers |-> IF c = 1 THEN m ELSE Absent]
    /\ wk = [r \in Workers |-> IdleWorker]
    /\ history = << >>
    /\ clock = 0
    /\ started = 0
    /\ last = NoResponse
    /\ relay = [s \in Subscribers |-> RelayStart]

PromoNext ==
    \/ \E r \in Workers, in \in PromoInputs :
         \E dopts \in Orderings(ValidDinnerOptionIds(in.dinner.code, in.dinner.dinner_options)) :
            CreateBegin(r, in, dopts)
    \/ \E r \in Workers : CreateEvaluate(r)
    \/ \E r \in Workers : CreateRedeem(r)
    \/ \E r \in Workers : CreateCommit(r)
    \/ \E r \in Workers : CreateAbort(r)
    \/ \E r \in Workers, o \in OrderIds : RetryRedeem(r, o)
    \/ \E r \in Workers : RetryCommit(r)

PromoSpec == PromoInit /\ [][PromoNext]_vars

\* ------------------------------------------ OrderPricePreviewAPIView.post
\* the adjustment lines of the dinner options, in the order the rows came
PreviewOptionAdjustments(ids, deltas) ==
    [k \in DOMAIN ids |->
        [type |-> "dinner_option", label |-> DinnerOptions[ids[k]].name,
         mode |-> "addon", value_cents |-> deltas[k]]]

\* the default_overrides loop of the preview: the adjustment lines, or the
\* first invalid override
RECURSIVE PreviewOverrides(_, _, _)
PreviewOverrides(dinner, ovs, adj) ==
    IF ovs = << >> THEN [ok |-> TRUE, adjustments |-> adj]
    ELSE LET ov == Head(ovs)
             defs == DefaultItems(dinner)
             k == IF \E j \in DOMAIN defs : defs[j].item = ov.code
                  THEN CHOOSE j \in DOMAIN defs : defs[j].item = ov.code
                  ELSE 0
         IN  IF k = 0 THEN [ok |-> FALSE, adjustments |-> adj]
             ELSE IF ov.qty < 0 \/ ov.qty > defs[k].default_qty
             THEN [ok |-> FALSE, adjustments |-> adj]
             ELSE IF ov.qty = defs[k].default_qty
             THEN PreviewOverrides(dinner, Tail(ovs), adj)
             ELSE PreviewOverrides(dinner, Tail(ovs),
                    Append(adj, [type |-> "default_override", label |-> ov.code,
                                 mode |-> IF ov.qty = 0 THEN "remove" ELSE "decrease",
                                 value_cents |-> 0]))

\* the items loop of the preview: one line per submitted item
RECURSIVE PreviewItems(_, _, _)
PreviewItems(items, lines, total) ==
    IF items = << >> THEN [ok |-> TRUE, lines |-> lines, total |-> total]
    ELSE LET it == Head(items)
         IN  IF it.code \notin DOMAIN MenuItems
             THEN [ok |-> FALSE, lines |-> lines, total |-> total]
             ELSE IF ~MenuItems[it.code].active
             THEN [ok |-> FALSE, lines |-> lines, total |-> total]
             ELSE IF BadItemOptions(it.code, it.options) # << >>
             THEN [ok |-> FALSE, lines |-> lines, total |-> total]
             ELSE LET calc == CalcItemUnitCents(it.code, SelectedItemOptions(it.options))
                      line_sub == RoundHalfUp(calc.unit * it.qty, 100)
                  IN  PreviewItems(Tail(items),
                        Append(lines,
                          [item_code |-> it.code, qty |-> it.qty,
                           unit_price_cents |-> calc.unit,
                           options |-> [k \in DOMAIN calc.snaps |->
                              [option_group_name |-> calc.snaps[k].option_group_name,
                               option_name |-> calc.snaps[k].option_name,
                               price_delta_cents |-> calc.snaps[k].price_delta_cents]],
                           subtotal_cents |-> line_sub]),
                        total + line_sub)

PreviewReject == [code |-> 400, body |-> Absent]

\* post(): the answer to a preview request; dopts is the order in which the
\* database returned the dinner options, rows the redemption table
PreviewResponse(in, dopts, cps, mbs, rows, now) ==
    LET d == in.dinner
    IN  IF d.code \notin DOMAIN DinnerTypes THEN PreviewReject
        ELSE IF ~DinnerTypes[d.code].active THEN PreviewReject
        ELSE IF d.style \notin DOMAIN ServingStyles THEN PreviewReject
        ELSE IF ~StyleAllowed(d.code, d.style) THEN PreviewReject
        ELSE IF ~DinnerOptionsResolve(d.code, d.dinner_options) THEN PreviewReject
        ELSE LET st == ApplyStyleToBase(d.code, d.style)
                 qty == IF d.quantity = 0 THEN 100 ELSE d.quantity
                 chain == DinnerOptionChain(st[1], dopts, << >>)
                 adj0 == << [type |-> "style", label |-> d.style,
                             mode |-> "addon", value_cents |-> st[2]] >>
                           \o PreviewOptionAdjustments(dopts, chain.deltas)
                 ov == PreviewOverrides(d.code, d.default_overrides, adj0)
                 dinner_subtotal == RoundHalfUp(chain.unit * qty, 100)
                 li == PreviewItems(in.items, << >>, 0)
                 subtotal == dinner_subtotal + li.total
                 ev == EvaluateDiscounts(cps, mbs, rows, subtotal, in.customer_id,
                                         in.order_source, in.coupons, now)
             IN  IF ~ov.ok \/ ~li.ok THEN PreviewReject
                 ELSE [code |-> 200,
                       body |-> [line_items |-> li.lines,
                                 adjustments |-> ov.adjustments,
                                 dinner_unit_cents |-> chain.unit,
                                 subtotal_cents |-> subtotal,
                                 discounts |-> ev.discounts,
                                 discount_cents |-> ev.total_discount,
                                 total_cents |-> ev.total_after]]

\* a preview request is answered in one step and writes nothing; last keeps
\* the request and the row order next to the answer
Preview(in, dopts) ==
    /\ \E res \in { PreviewResponse(in, dopts, coupons, memberships, ledger, clock) } :
          last' = [kind |-> "preview", method |-> None, seen |-> None,
                   code |-> res.code, request |-> in, rows |-> dopts,
                   body |-> res.body]
    /\ UNCHANGED <<relay, orders, dinners, ledger, channel, nextId, rowLock, couponLock,
                    coupons, memberships, wk, history, clock, started >>

\* ------------------------------------------------------- price previews
\* promotion_coupon tables of the preview specification: A 10.00 percent up
\* to 90, B 3.00 fixed, C 50.00 percent; solo is the set of the coupons that
\* do not stack with other coupons
PreviewCouponTable(solo) ==
    [c \in {CodeA, CodeB, CodeC} |->
        [ (CASE c = CodeA -> CouponRow("percent", 1000, Null, 90, "ANY", Null, Null)
             [] c = CodeB -> CouponRow("fixed", 300, Null, Null, "ANY", Null, Null)
             [] c = CodeC -> CouponRow("percent", 5000, Null, Null, "ANY", Null, Null))
          EXCEPT !.stackable_with_coupons = c \notin solo ]]

PreviewCouponLists ==
    { << >>, << CodeA >>, << CodeC, CodeA >>, << CodeA, CodeC >>,
      << CodeB, CodeC >>, << CodeC, CodeB, CodeA >>, << CodeB, << "b" >> >> }

PreviewDinners ==
    { PlainDinner,
      DinnerSel("valentine", "simple", << 1, 2 >>, << >>),
      DinnerSel("valentine", "simple", << 2, 1 >>, << >>),
      DinnerSel("valentine", "simple", << 5, 1 >>, << >>),
      DinnerSel("valentine", "grand", << 2, 5 >>, << >>),
      DinnerSel("valentine", "grand", << 3, 1 >>, << Override("wine", 0) >>),
      DinnerSel("valentine", "grand", << 2, 3, 1 >>, << Override("steak", 100) >>),
      DinnerSel("valentine", "deluxe", << >>, << >>),
      DinnerSel("valentine", "simple", << 4 >>, << >>),
      DinnerSel("valentine", "simple", << >>, << Override("steak", 300) >>) }

PreviewItemLists ==
    { << >>,
      << Item("wine", 150, << 1, 2 >>), Item("wine", 50, << >>) >>,
      << Item("steak", 100, << 3 >>) >>,
      << Item("steak", 100, << 4, 3 >>), Item("wine", 100, << 1 >>) >>,
      << Item("soup", 100, << >>) >> }

\* every coupon list on the plain dinner, every dinner with every item list
PreviewInputs ==
    { CreateInput(1, PlainDinner, << >>, c) : c \in PreviewCouponLists }
      \cup { CreateInput(1, d, i, << >>) : d \in PreviewDinners, i \in PreviewItemLists }

PreviewInit ==
    /\ orders = [o \in OrderIds |-> Absent]
    /\ dinners = [o \in OrderIds |-> Absent]
    /\ ledger = << >>
    /\ channel = << >>
    /\ nextId = 1
    /\ rowLock = [o \in OrderIds |-> 0]
    /\ couponLock = [c \in DOMAIN CouponTable |-> 0]
    /\ \E solo \in SUBSET {CodeA, CodeB, CodeC} : coupons = PreviewCouponTable(solo)
    /\ \E m \in {Absent} \cup {MembershipRow(p) : p \in MembershipPercents} :
          memberships = [c \in Customers |-> IF c = 1 THEN m ELSE Absent]
    /\ wk = [r \in Workers |-> IdleWorker]
    /\ history = << >>
    /\ clock = 0
    /\ started = 0
    /\ last = NoResponse
    /\ relay = [s \in Subscribers |-> RelayStart]

PreviewNext ==
    \E in \in PreviewInputs :
       \E dopts \in Orderings(ValidDinnerOptionIds(in.dinner.code, in.dinner.dinner_options)) :
          Preview(in, dopts)

PreviewSpec == PreviewInit /\ [][PreviewNext]_vars

\* ------------------------------------------------- notification relay
\* a relayed event that keeps the event name and drops the rest
RelayEventNameOnly(ch, obj) == [event |-> JsonGet(obj, "event")]

\* the name mapped from op wins over the event field of the payload
RelayEventOpFirst(ch, obj) ==
    IF "op" \in DOMAIN obj /\ obj.op \in {"INSERT", "UPDATE", "DELETE"}
    THEN [k \in DOMAIN obj \cup {"event"} |->
            IF k # "event" THEN obj[k]
            ELSE CASE obj.op = "INSERT" -> "order_created"
                   [] obj.op = "UPDATE" -> "order_updated"
                   [] OTHER -> "order_deleted"]
    ELSE IF "event" \in DOMAIN obj THEN obj
    ELSE [k \in DOMAIN obj \cup {"event"} |-> IF k = "event" THEN ch ELSE obj[k]]

\* the event a notification is relayed as: its own event field, else the
\* name mapped from op, else the channel name
RelayEvent(ch, obj) ==
    IF "event" \in DOMAIN obj THEN obj
    ELSE IF "op" \in DOMAIN obj /\ obj.op \in {"INSERT", "UPDATE", "DELETE"}
    THEN [k \in DOMAIN obj \cup {"event"} |->
            IF k # "event" THEN obj[k]
            ELSE CASE obj.op = "INSERT" -> "order_created"
                   [] obj.op = "UPDATE" -> "order_updated"
                   [] OTHER -> "order_deleted"]
    ELSE [k \in DOMAIN obj \cup {"event"} |-> IF k = "event" THEN ch ELSE obj[k]]

\* the one-shot event of a session
Diagnostic == [event |-> "diagnostic", listening |-> RelayChannels]

\* a successful connect puts the delay back to its first value
RelayConnectReset(s) ==
    /\ relay[s].pc = "down"
    /\ relay' = [relay EXCEPT ![s].pc = "connected", ![s].backoff = BackoffStart]
    /\ UNCHANGED <<orders, dinners, ledger, channel, nextId, rowLock, couponLock,
                   coupons, memberships, wk, history, clock, started, last>>

\* psycopg.connect succeeds and the cursor is opened
RelayConnect(s) ==
    /\ relay[s].pc = "down"
    /\ relay' = [relay EXCEPT ![s].pc = "connected"]
    /\ UNCHANGED <<orders, dinners, ledger, channel, nextId, rowLock, couponLock,
                   coupons, memberships, wk, history, clock, started, last>>

\* a LISTEN after which the server hands over everything ever sent
RelayListenReplay(s) ==
    /\ relay[s].pc = "connected"
    /\ relay[s].listened < Len(RelayChannels)
    /\ relay' = [relay EXCEPT ![s].listened = @ + 1, ![s].start = 0, ![s].pos = 0]
    /\ UNCHANGED <<orders, dinners, ledger, channel, nextId, rowLock, couponLock,
                   coupons, memberships, wk, history, clock, started, last>>

\* cur.execute(LISTEN ch) for the next channel of chans; from LISTEN on
\* orders_events the server queues what is delivered on it for this session
RelayListen(s) ==
    /\ relay[s].pc = "connected"
    /\ relay[s].listened < Len(RelayChannels)
    /\ relay' = [relay EXCEPT
          ![s].listened = @ + 1,
          ![s].start = IF RelayChannels[relay[s].listened + 1] = "orders_events"
                       THEN Len(channel) ELSE @,
          ![s].pos = IF RelayChannels[relay[s].listened + 1] = "orders_events"
                     THEN Len(channel) ELSE @]
    /\ UNCHANGED <<orders, dinners, ledger, channel, nextId, rowLock, couponLock,
                   coupons, memberships, wk, history, clock, started, last>>

\* a diagnostic yielded as soon as the connection is open
RelayDiagnosticEarly(s) ==
    /\ relay[s].pc = "connected"
    /\ relay' = [relay EXCEPT ![s].pc = "streaming", ![s].diags = @ + 1,
                              ![s].out = Diagnostic]
    /\ UNCHANGED <<orders, dinners, ledger, channel, nextId, rowLock, couponLock,
                   coupons, memberships, wk, history, clock, started, last>>

\* yield diag, once the LISTEN loop is over
RelayDiagnostic(s) ==
    /\ relay[s].pc = "connected"
    /\ relay[s].listened = Len(RelayChannels)
    /\ relay' = [relay EXCEPT ![s].pc = "streaming", ![s].diags = @ + 1,
                              ![s].out = Diagnostic]
    /\ UNCHANGED <<orders, dinners, ledger, channel, nextId, rowLock, couponLock,
                   coupons, memberships, wk, history, clock, started, last>>

\* select() reports input: consume_input and _drain_notifies take every
\* notification queued for the session
RelayWake(s) ==
    /\ relay[s].pc = "streaming"
    /\ relay[s].pending = 0
    /\ relay[s].pos < Len(channel)
    /\ relay' = [relay EXCEPT ![s].pending = Len(channel) - relay[s].pos]
    /\ UNCHANGED <<orders, dinners, ledger, channel, nextId, rowLock, couponLock,
                   coupons, memberships, wk, history, clock, started, last>>

\* yield safe_obj for the next drained notification
RelayYield(s) ==
    /\ relay[s].pc = "streaming"
    /\ relay[s].pending > 0
    /\ relay' = [relay EXCEPT
          ![s].pos = @ + 1, ![s].pending = @ - 1,
          ![s].out = RelayEvent("orders_events", channel[relay[s].pos + 1])]
    /\ UNCHANGED <<orders, dinners, ledger, channel, nextId, rowLock, couponLock,
                   coupons, memberships, wk, history, clock, started, last>>

\* the wait grows by its first value instead of doubling
RelayFailLinear(s) ==
    /\ \/ relay[s].pc = "down"
       \/ relay[s].pc = "connected" /\ relay[s].listened < Len(RelayChannels)
       \/ relay[s].pc = "streaming" /\ relay[s].pending = 0
    /\ relay' = [relay EXCEPT
          ![s] = [RelayStart EXCEPT
                     !.slept = relay[s].backoff,
                     !.backoff = Min(relay[s].backoff + BackoffStart, BackoffCap)]]
    /\ UNCHANGED <<orders, dinners, ledger, channel, nextId, rowLock, couponLock,
                   coupons, memberships, wk, history, clock, started, last>>

\* an error that leaves the generator: nothing catches it, the stream ends
RelayFailRaise(s) ==
    /\ \/ relay[s].pc = "down"
       \/ relay[s].pc = "connected" /\ relay[s].listened < Len(RelayChannels)
       \/ relay[s].pc = "streaming" /\ relay[s].pending = 0
    /\ relay' = [relay EXCEPT
          ![s] = [RelayStart EXCEPT !.pc = "ended", !.out = [event |-> "error"]]]
    /\ UNCHANGED <<orders, dinners, ledger, channel, nextId, rowLock, couponLock,
                   coupons, memberships, wk, history, clock, started, last>>

\* connect, LISTEN, select or consume_input raises: the error is logged,
\* cursor and connection are closed and with them the session, the
\* generator sleeps backoff seconds and doubles backoff up to the ceiling
RelayFail(s) ==
    /\ \/ relay[s].pc = "down"
       \/ relay[s].pc = "connected" /\ relay[s].listened < Len(RelayChannels)
       \/ relay[s].pc = "streaming" /\ relay[s].pending = 0
    /\ relay' = [relay EXCEPT
          ![s] = [RelayStart EXCEPT
                     !.slept = relay[s].backoff,
                     !.backoff = Min(2 * relay[s].backoff, BackoffCap)]]
    /\ UNCHANGED <<orders, dinners, ledger, channel, nextId, rowLock, couponLock,
                   coupons, memberships, wk, history, clock, started, last>>

\* one order, the staff requests handled one at a time by one worker, and
\* the relay
RelayInit == SeqInit

RelayNext ==
    \/ \E o \in OrderIds, a \in MethodStrings, by \in StaffIds :
          ActionBegin(1, o, a, by, None)
    \/ ActionSave(1)
    \/ ActionAbort(1)
    \/ ActionCommit(1)
    \/ ActionRunHooks(1)
    \/ \E s \in Subscribers : RelayConnect(s)
    \/ \E s \in Subscribers : RelayListen(s)
    \/ \E s \in Subscribers : RelayDiagnostic(s)
    \/ \E s \in Subscribers : RelayWake(s)
    \/ \E s \in Subscribers : RelayYield(s)
    \/ \E s \in Subscribers : RelayFail(s)

RelaySpec == RelayInit /\ [][RelayNext]_vars

\* the generator is pulled by the streaming response, so a yield that is
\* ready is reached; errors are under no obligation to happen
RelayFairSpec ==
    /\ RelaySpec
    /\ \A s \in Subscribers :
          /\ WF_vars(RelayListen(s))
          /\ WF_vars(RelayDiagnostic(s))
          /\ WF_vars(RelayWake(s))
          /\ WF_vars(RelayYield(s))

\* ------------------------------------------------- order feed of the staff
\* OrdersSSEView.get stream(): the frame written for one relayed message
SseFrame(msg) == [event |-> JsonGet(msg, "event"), data |-> msg]

\* orders created by one worker, and the relay
FeedInit == Init

FeedNext ==
    \/ \E in \in SpecInputs :
         \E dopts \in Orderings(ValidDinnerOptionIds(in.dinner.code, in.dinner.dinner_options)) :
            CreateBegin(1, in, dopts)
    \/ CreateEvaluate(1)
    \/ CreateRedeem(1)
    \/ CreateCommit(1)
    \/ CreateAbort(1)
    \/ \E s \in Subscribers : RelayConnect(s)
    \/ \E s \in Subscribers : RelayListen(s)
    \/ \E s \in Subscribers : RelayDiagnostic(s)
    \/ \E s \in Subscribers : RelayWake(s)
    \/ \E s \in Subscribers : RelayYield(s)
    \/ \E s \in Subscribers : RelayFail(s)

FeedSpec == FeedInit /\ [][FeedNext]_vars

\* select() returns when the socket has input and the streaming response
\* pulls the generator; errors are under no obligation to happen
FeedFairSpec ==
    /\ FeedSpec
    /\ \A s \in Subscribers :
          /\ WF_vars(RelayListen(s))
          /\ WF_vars(RelayDiagnostic(s))
          /\ WF_vars(RelayWake(s))
          /\ WF_vars(RelayYield(s))

\* the feed with the sleep of the reconnect loop returning: after
\* time.sleep(backoff) the loop always goes on to psycopg.connect
FeedRetrySpec ==
    /\ FeedFairSpec
    /\ \A s \in Subscribers : WF_vars(RelayConnect(s))

\* ------------------------------------------------------------ two subscribers
\* two GET requests of the event stream open at the same time: each has its
\* own stream() and its own iter_order_notifications generator; transport
\* errors are followed on the connection of the second
Streams == {1, 2}

\* closing the stream of one subscriber ends every receive loop
RelayCloseAll(s) ==
    /\ relay[s].pc = "streaming"
    /\ relay' = [j \in DOMAIN relay |->
                    [relay[j] EXCEPT !.pc = "closed", !.listened = 0,
                                     !.pending = 0, !.out = Absent]]
    /\ UNCHANGED <<orders, dinners, ledger, channel, nextId, rowLock, couponLock,
                   coupons, memberships, wk, history, clock, started, last>>

\* the client of s goes away: the response is closed while the generator is
\* suspended at a yield, GeneratorExit passes `except Exception`, the finally
\* block closes cursor and connection and the generator ends without sleeping
RelayClose(s) ==
    /\ relay[s].pc = "streaming"
    /\ relay' = [relay EXCEPT
          ![s] = [relay[s] EXCEPT !.pc = "closed", !.listened = 0,
                                  !.pending = 0, !.out = Absent]]
    /\ UNCHANGED <<orders, dinners, ledger, channel, nextId, rowLock, couponLock,
                   coupons, memberships, wk, history, clock, started, last>>

PairInit ==
    /\ orders = [o \in OrderIds |-> Absent]
    /\ dinners = [o \in OrderIds |-> Absent]
    /\ ledger = << >>
    /\ channel = << >>
    /\ nextId = 1
    /\ rowLock = [o \in OrderIds |-> 0]
    /\ couponLock = [c \in DOMAIN CouponTable |-> 0]
    /\ coupons = CouponTable
    /\ memberships = [c \in Customers |-> Absent]
    /\ wk = [r \in Workers |-> IdleWorker]
    /\ history = << >>
    /\ clock = 0
    /\ started = 0
    /\ last = NoResponse
    /\ relay = [s \in Streams |-> RelayStart]

PairNext ==
    \/ \E in \in SpecInputs :
         \E dopts \in Orderings(ValidDinnerOptionIds(in.dinner.code, in.dinner.dinner_options)) :
            CreateBegin(1, in, dopts)
    \/ CreateEvaluate(1)
    \/ CreateRedeem(1)
    \/ CreateCommit(1)
    \/ CreateAbort(1)
    \/ \E s \in Streams : RelayConnect(s)
    \/ \E s \in Streams : RelayListen(s)
    \/ \E s \in Streams : RelayDiagnostic(s)
    \/ \E s \in Streams : RelayWake(s)
    \/ \E s \in Streams : RelayYield(s)
    \/ RelayFail(2)
    \/ \E s \in Streams : RelayClose(s)

PairSpec == PairInit /\ [][PairNext]_vars

\* select() returns when the socket has input and each streaming response
\* pulls its generator
PairFairSpec ==
    /\ PairSpec
    /\ \A s \in Streams :
          /\ WF_vars(RelayConnect(s))
          /\ WF_vars(RelayListen(s))
          /\ WF_vars(RelayDiagnostic(s))
          /\ WF_vars(RelayWake(s))
          /\ WF_vars(RelayYield(s))

\* ------------------------------------------------------------ payload texts
\* A payload is a text, modelled as the sequence of its JSON tokens: braces,
\* colon, comma, quoted strings, numbers, and bare words (which JSON does
\* not know).
LBrace == [t |-> "{"]
RBrace == [t |-> "}"]
Colon == [t |-> ":"]
Comma == [t |-> ","]
Str(v) == [t |-> "str", v |-> v]
Num(n) == [t |-> "num", v |-> n]
Word(w) == [t |-> "word", v |-> w]

IsScalar(tok) == tok.t \in {"str", "num"}

\* the members  "key": scalar, ...  between the braces of an object
RECURSIVE ParseMembers(_)
ParseMembers(toks) ==
    IF Len(toks) < 3 THEN [ok |-> FALSE, pairs |-> << >>]
    ELSE IF ~(toks[1].t = "str" /\ toks[2].t = ":" /\ IsScalar(toks[3]))
    THEN [ok |-> FALSE, pairs |-> << >>]
    ELSE IF Len(toks) = 3
    THEN [ok |-> TRUE, pairs |-> << << toks[1].v, toks[3].v >> >>]
    ELSE IF toks[4].t # ","
    THEN [ok |-> FALSE, pairs |-> << >>]
    ELSE LET rest == ParseMembers(SubSeq(toks, 5, Len(toks)))
         IN  [ok |-> rest.ok,
              pairs |-> << << toks[1].v, toks[3].v >> >> \o rest.pairs]

\* the dict of parsed members; a repeated key keeps its last value
ObjOf(pairs) ==
    [k \in {pairs[i][1] : i \in DOMAIN pairs} |->
        LET at == CHOOSE i \in DOMAIN pairs :
                     /\ pairs[i][1] = k
                     /\ \A j \in DOMAIN pairs : pairs[j][1] = k => j <= i
        IN  pairs[at][2]]

\* json.loads(payload) if payload else {} : ok is FALSE where json.loads
\* raises, dict tells an object from a scalar
JsonLoads(payload) ==
    IF payload = << >> THEN [ok |-> TRUE, dict |-> TRUE, obj |-> ObjOf(<< >>)]
    ELSE IF Len(payload) = 1
    THEN IF IsScalar(payload[1])
         THEN [ok |-> TRUE, dict |-> FALSE, obj |-> payload[1].v]
         ELSE [ok |-> FALSE, dict |-> FALSE, obj |-> Absent]
    ELSE IF payload[1].t # "{" \/ payload[Len(payload)].t # "}"
    THEN [ok |-> FALSE, dict |-> FALSE, obj |-> Absent]
    ELSE IF Len(payload) = 2
    THEN [ok |-> TRUE, dict |-> TRUE, obj |-> ObjOf(<< >>)]
    ELSE LET mem == ParseMembers(SubSeq(payload, 2, Len(payload) - 1))
         IN  IF mem.ok THEN [ok |-> TRUE, dict |-> TRUE, obj |-> ObjOf(mem.pairs)]
             ELSE [ok |-> FALSE, dict |-> FALSE, obj |-> Absent]

\* the message yielded for one notification: the payload parsed, a payload
\* json.loads rejects wrapped as {"raw": payload}; a dict gets its event name,
\* any other JSON value is wrapped under raw with the channel as event
RelayMessage(ch, payload) ==
    LET d == JsonLoads(payload)
    IN  IF ~d.ok THEN RelayEvent(ch, [raw |-> payload])
        ELSE IF d.dict THEN RelayEvent(ch, d.obj)
        ELSE [event |-> ch, raw |-> d.obj]

\* the text of an object with the given members, in the given order
RECURSIVE MemberTokens(_)
MemberTokens(members) ==
    IF members = << >> THEN << >>
    ELSE << Str(members[1][1]), Colon, members[1][2] >>
           \o (IF Len(members) = 1 THEN << >>
               ELSE << Comma >> \o MemberTokens(Tail(members)))

JsonText(members) == << LBrace >> \o MemberTokens(members) \o << RBrace >>

\* the members of the objects notified in the payload specification: what the
\* triggers send (event), what older triggers sent (op), both, and neither
NoteMembers ==
    { << << "event", Str("order_created") >>, << "order_id", Num(1) >> >>,
      << << "op", Str("INSERT") >>, << "order_id", Num(1) >> >>,
      << << "op", Str("UPDATE") >> >>,
      << << "order_id", Num(2) >>, << "op", Str("DELETE") >> >>,
      << << "op", Str("TRUNCATE") >> >>,
      << << "order_id", Num(1) >> >>,
      << << "event", Str("custom") >>, << "op", Str("DELETE") >> >>,
      << << "op", Str("INSERT") >>, << "event", Str("custom") >> >> }

\* texts json.loads rejects: a truncated object and a bare word
BrokenTexts == { << LBrace, Str("event") >>, << Word("oops") >> }

\* valid JSON that is no object, and the empty payload
ScalarTexts == { << Num(7) >>, << >> }

NoteTexts == {JsonText(m) : m \in NoteMembers} \cup BrokenTexts \cup ScalarTexts

MaxNotes == 2

\* a database session executes NOTIFY orders_events, '<text>'; in the
\* payload specification the channel holds the payload texts as sent
Notify(txt) ==
    /\ Len(channel) < MaxNotes
    /\ channel' = Append(channel, txt)
    /\ UNCHANGED <<relay, orders, dinners, ledger, nextId, rowLock, couponLock,
                   coupons, memberships, wk, history, clock, started, last>>

\* a payload json.loads rejects ends the session like a transport error
RelayYieldTextRaise(s) ==
    /\ relay[s].pc = "streaming"
    /\ relay[s].pending > 0
    /\ relay' = [relay EXCEPT
          ![s] = IF JsonLoads(channel[relay[s].pos + 1]).ok
                 THEN [relay[s] EXCEPT
                         !.pos = @ + 1, !.pending = @ - 1,
                         !.out = RelayMessage("orders_events",
                                              channel[relay[s].pos + 1])]
                 ELSE [RelayStart EXCEPT
                         !.slept = relay[s].backoff,
                         !.backoff = Min(2 * relay[s].backoff, BackoffCap)]]
    /\ UNCHANGED <<orders, dinners, ledger, channel, nextId, rowLock, couponLock,
                   coupons, memberships, wk, history, clock, started, last>>

\* yield safe_obj for the next drained notification, decoded from its text
RelayYieldText(s) ==
    /\ relay[s].pc = "streaming"
    /\ relay[s].pending > 0
    /\ relay' = [relay EXCEPT
          ![s].pos = @ + 1, ![s].pending = @ - 1,
          ![s].out = RelayMessage("orders_events", channel[relay[s].pos + 1])]
    /\ UNCHANGED <<orders, dinners, ledger, channel, nextId, rowLock, couponLock,
                   coupons, memberships, wk, history, clock, started, last>>

NoteInit == Init

NoteNext ==
    \/ \E txt \in NoteTexts : Notify(txt)
    \/ \E s \in Subscribers : RelayConnect(s)
    \/ \E s \in Subscribers : RelayListen(s)
    \/ \E s \in Subscribers : RelayDiagnostic(s)
    \/ \E s \in Subscribers : RelayWake(s)
    \/ \E s \in Subscribers : RelayYieldText(s)

NoteSpec == NoteInit /\ [][NoteNext]_vars

\* select() returns when the socket has input and the streaming response
\* pulls the generator
NoteFairSpec ==
    /\ NoteSpec
    /\ \A s \in Subscribers :
          /\ WF_vars(RelayConnect(s))
          /\ WF_vars(RelayListen(s))
          /\ WF_vars(RelayDiagnostic(s))
          /\ WF_vars(RelayWake(s))
          /\ WF_vars(RelayYieldText(s))

\* ===================================================== order lifecycle properties
\* the transitions of the lifecycle table: <<method, status before, status after>>
LifecycleTable ==
    { <<"accept", PENDING, PREP>>,
      <<"out_for_delivery", PREP, OUT>>,
      <<"deliver", OUT, DELIVERED>>,
      <<"cancel", PENDING, CANCELED>>,
      <<"cancel", PREP, CANCELED>>,
      <<"cancel", OUT, CANCELED>> }

\* the table with the one further request that succeeds
LifecycleTableWithReady == LifecycleTable \cup { <<"mark_ready", PREP, PREP>> }

InTable(table, m, from) == \E t \in table : t[1] = m /\ t[2] = from

\* one step of the system obeys the table: a persisted row changes only by
\* the commit of a request whose (method, status before, status after) is in
\* the table, and a request whose (status, method) pair is not in the table
\* is answered 409 with every persisted row as it was
ObeysTable(table) ==
    /\ \A o \in OrderIds :
          (orders[o] # Absent /\ orders'[o] # orders[o]) =>
             \E r \in Workers :
                /\ wk[r].pc = "saved" /\ wk[r].order = o
                /\ <<wk[r].method, orders[o].status, orders'[o].status>> \in table
    /\ ( /\ last' # last
         /\ last'.kind = "action"
         /\ last'.method \in Methods
         /\ last'.seen \in OrderStatus
         /\ ~InTable(table, last'.method, last'.seen) )
       => (last'.code = 409 /\ orders' = orders)

\* C1 as stated: handled sequentially, the only requests that succeed are
\* accept, out_for_delivery, deliver and cancel from the statuses of the
\* table; every other (status, action) pair fails with 409 and leaves the
\* persisted status and operation log unchanged.
C1Original == [][ObeysTable(LifecycleTable)]_vars

\* C1 amended: the same with mark_ready on a PREPARING order added to the
\* pairs that succeed (it keeps the status and appends one log entry).
C1Amended == [][ObeysTable(LifecycleTableWithReady)]_vars

\* C1 witness: accept and mark_ready were committed on order 1, and a
\* second accept was then refused with 409
C1Witness ==
    /\ orders[1] # Absent
    /\ orders[1].status = PREP
    /\ Len(orders[1].meta.staff_ops) = 2
    /\ last = Response(0, "action", 1, "accept", PREP, 409)

\* C2: DELIVERED and CANCELED are terminal: once the persisted status of an
\* order is one of them, no step changes it, also with requests in flight
\* that loaded the row earlier.
C2TerminalIsFinal ==
    [][\A o \in OrderIds :
          (orders[o] # Absent /\ orders[o].status \in {DELIVERED, CANCELED})
             => orders'[o].status = orders[o].status]_vars

\* the committed transitions of order o, in commit order
CommittedTransitions(o) ==
    SelectSeq(history, LAMBDA h : h.order = o /\ h.event # "create")

\* the events of the persisted operation log of order o
LoggedEvents(o) ==
    [i \in 1..Len(orders[o].meta.staff_ops) |-> orders[o].meta.staff_ops[i].event]

\* C3: the persisted operation log of an order holds exactly one entry per
\* committed transition of that order, in commit order.
C3LogIsCommitHistory ==
    \A o \in OrderIds :
        orders[o] # Absent =>
            LoggedEvents(o) = [i \in 1..Len(CommittedTransitions(o)) |->
                                  CommittedTransitions(o)[i].event]

\* the notifications delivered for order o that satisfy P
Delivered(o, P(_)) ==
    Cardinality({i \in 1..Len(channel) : channel[i].order_id = o /\ P(channel[i])})

FromHook(n) == n.src = "hook"

FromUpdateTrigger(n) == n.src = "trigger" /\ n.event = "order_updated"

FromTrigger(n) == n.src = "trigger"

\* the committed creations of order o (each one INSERT and one UPDATE)
CreationsCommitted(o) ==
    Cardinality({i \in 1..Len(history) :
                    history[i].order = o /\ history[i].event = "create"})

\* C4: a transition whose transaction aborts leaves no trace: the persisted
\* log of an order never holds more entries, and the channel never holds
\* more notifications for it, than its committed transitions account for.
C4AbortLeavesNoTrace ==
    \A o \in OrderIds :
        /\ orders[o] # Absent =>
              Len(orders[o].meta.staff_ops) <= Len(CommittedTransitions(o))
        /\ Delivered(o, FromHook) <= Len(CommittedTransitions(o))
        /\ Delivered(o, FromUpdateTrigger)
              <= Len(CommittedTransitions(o)) + CreationsCommitted(o)

\* C4 witness: a transition was rolled back after its log entry was
\* appended and its row saved (the 409 answers a request whose guard had
\* passed), and order 1 shows no transition at all
C4Witness ==
    /\ last.kind = "action" /\ last.code = 409
    /\ last.seen \in OrderStatus
    /\ GuardOk(last.method, last.seen)
    /\ orders[1] # Absent
    /\ orders[1].status = PENDING
    /\ orders[1].meta.staff_ops = << >>
    /\ Delivered(1, FromHook) = 0
    /\ \A r \in Workers : wk[r].pc = "idle"

\* C5 as stated: a notification is issued only after the transaction that
\* made the change has committed: no open transaction has issued one.
C5IssuedAfterCommit == \A r \in Workers : wk[r].tx.notify = << >>

\* C5 amended: every committed creation and transition has its trigger
\* notifications on the channel, and the channel holds no notification of a
\* transaction that has not committed (the trigger issues NOTIFY inside the
\* transaction; the server delivers it at commit).
C5DeliveredAtCommit ==
    \A o \in OrderIds :
        /\ Delivered(o, FromTrigger)
              = Len(CommittedTransitions(o)) + 2 * CreationsCommitted(o)
        /\ Delivered(o, FromHook) <= Len(CommittedTransitions(o))
        /\ (orders[o] = Absent) => Delivered(o, FromTrigger) = 0

\* C5 witness: order 1 was created and a transition on it committed, while
\* another transaction is open with its notification issued and held back
C5Witness ==
    /\ orders[1] # Absent
    /\ Len(CommittedTransitions(1)) = 1
    /\ Delivered(1, FromTrigger) = 3
    /\ \E r \in Workers : wk[r].pc = "saved" /\ wk[r].tx.notify # << >>

\* C6: one change event per committed transition, with the committed order
\* id and status: the events delivered for an order, the creation's aside,
\* are no more than its committed transitions.
C6OneEventPerTransition ==
    \A o \in OrderIds :
        Delivered(o, FromHook) + Delivered(o, FromUpdateTrigger)
            <= Len(CommittedTransitions(o)) + CreationsCommitted(o)

\* ===================================================== order creation properties
\* C7: creation is all-or-nothing: the step that answers a request whose
\* validation failed after the order row was inserted leaves no order,
\* dinner, line or redemption row of it and delivers no notification.
C7AllOrNothing ==
    [][\A r \in Workers :
          (wk[r].pc = "c_failed" /\ wk'[r].pc = "idle")
             => /\ orders' = orders
                /\ dinners' = dinners
                /\ ledger' = ledger
                /\ channel' = channel]_vars

\* the handler of worker r holds a result of evaluate_discounts
Evaluated(r) == wk[r].pc \in {"c_raised", "c_saved", "c_redeemed"}

\* C8: for every result of evaluate_discounts and every persisted order,
\* total = subtotal - discount and total >= 0, and the running total never
\* rises and never falls below zero (subtotal, after membership, after the
\* coupons).
C8TotalsNeverNegative ==
    /\ \A r \in Workers :
          Evaluated(r) =>
             /\ wk[r].eval.total_after
                   = wk[r].eval.subtotal - wk[r].eval.total_discount
             /\ wk[r].eval.total_after >= 0
             /\ wk[r].eval.running_after_membership <= wk[r].eval.subtotal
             /\ wk[r].eval.running_after_membership >= 0
             /\ wk[r].eval.total_after <= wk[r].eval.running_after_membership
    /\ \A o \in OrderIds :
          orders[o] # Absent =>
             /\ orders[o].total_cents
                   = orders[o].subtotal_cents - orders[o].discount_cents
             /\ orders[o].total_cents >= 0

\* the coupon lines for code c among the discount lines of a persisted order
CouponLines(o, c) ==
    {i \in 1..Len(orders[o].meta.discounts) :
        /\ orders[o].meta.discounts[i].type = "coupon"
        /\ orders[o].meta.discounts[i].code = c}

\* C9: a (coupon, order) pair appears at most once in the redemption ledger.
C9OncePerOrder ==
    \A i, j \in 1..Len(ledger) :
        (ledger[i].coupon = ledger[j].coupon /\ ledger[i].order = ledger[j].order)
           => i = j

\* C9 witness: order 1 carries the same coupon on two discount lines, it
\* was redeemed at creation and redeem_discounts ran again for it, and the
\* ledger holds one row for the pair
C9Witness ==
    /\ orders[1] # Absent
    /\ Cardinality(CouponLines(1, CodeA)) = 2
    /\ last.kind = "redeem" /\ last.code = 200
    /\ orders[2] = Absent
    /\ \A r \in Workers : wk[r].pc = "idle"
    /\ Cardinality({i \in 1..Len(ledger) :
                      ledger[i].coupon = CodeA /\ ledger[i].order = 1}) = 1

\* C10: the ledger holds at most max_redemptions_global rows for a coupon
\* and at most max_redemptions_per_user rows for it per customer.
C10CapsHold ==
    \A c \in DOMAIN coupons :
        /\ coupons[c].max_redemptions_global # Null
              => CountCoupon(ledger, c) <= coupons[c].max_redemptions_global
        /\ coupons[c].max_redemptions_per_user # Null
              => \A u \in Customers :
                    CountCouponUser(ledger, c, u)
                        <= coupons[c].max_redemptions_per_user

\* C10 witness: two committed orders of customer 1 were both granted
\* coupons B and C at evaluation, and the ledger stands at the global cap of
\* B and at the per-user cap of C
C10Witness ==
    /\ orders[1] # Absent /\ orders[2] # Absent
    /\ orders[1].customer = 1 /\ orders[2].customer = 1
    /\ \A o \in {1, 2} : CouponLines(o, CodeB) # {} /\ CouponLines(o, CodeC) # {}
    /\ CountCoupon(ledger, CodeB) = coupons[CodeB].max_redemptions_global
    /\ CountCouponUser(ledger, CodeC, 1) = coupons[CodeC].max_redemptions_per_user

\* ===================================================== redemption properties
\* the amounts of the ledger rows of order o
LedgerSum(o) ==
    SeqSum([i \in 1..Len(ledger) |->
               IF ledger[i].order = o THEN ledger[i].amount_cents ELSE 0])

\* the amounts of the coupon lines among the discount lines of order o
CouponLineSum(o) ==
    SeqSum([i \in 1..Len(orders[o].meta.discounts) |->
               IF orders[o].meta.discounts[i].type = "coupon"
               THEN orders[o].meta.discounts[i].amount_cents ELSE 0])

\* C11: a coupon that fails re-validation at redemption is skipped without
\* raising: redeem_discounts raises in no handler that reached it, a
\* committed order keeps the evaluated discount and total, and the ledger
\* amounts of an order sum to at most its coupon discount lines.
C11SoftSkip ==
    /\ \A r \in Workers :
          wk[r].pc = "c_saved" =>
             ~RedeemDiscounts(coupons, VisibleLedger(r), wk[r].order,
                              wk[r].in.customer_id, wk[r].in.order_source,
                              wk[r].eval.discounts, clock).err
    /\ \A o \in OrderIds :
          orders[o] # Absent =>
             /\ LedgerSum(o) <= CouponLineSum(o)
             /\ orders[o].discount_cents
                   = SeqSum(LineAmounts(orders[o].meta.discounts))
             /\ orders[o].total_cents
                   = orders[o].subtotal_cents - orders[o].discount_cents

\* C11 witness: order 2 was committed (201) with a discount line for coupon
\* B, whose only slot order 1 had taken: no ledger row for (B, order 2)
C11Witness ==
    /\ orders[1] # Absent /\ orders[2] # Absent
    /\ CouponLines(2, CodeB) # {}
    /\ orders[2].discount_cents >= CouponLineSum(2)
    /\ CouponLineSum(2) > 0
    /\ ~ExistsCouponOrder(ledger, CodeB, 2)
    /\ ExistsCouponOrder(ledger, CodeB, 1)
    /\ last.kind = "create" /\ last.code = 201

\* ===================================================== discount evaluation properties
\* the last answer is a price preview that was not rejected
Previewed == last.kind = "preview" /\ last.code = 200

\* the coupon lines of the previewed discounts, in the order returned
PreviewCouponLines ==
    SelectSeq(last.body.discounts, LAMBDA d : d.type = "coupon")

\* the running total after the membership line of the preview
PreviewRunningAfterMembership ==
    last.body.subtotal_cents
      - SeqSum([i \in DOMAIN last.body.discounts |->
                  IF last.body.discounts[i].type = "membership"
                  THEN last.body.discounts[i].amount_cents ELSE 0])

\* the submitted codes, normalised, that pass every eligibility test of the
\* previewed request and have a positive amount, in input order
PreviewEligibleCodes ==
    SelectSeq(NormalizeCodes(last.request.coupons),
       LAMBDA c :
          /\ CouponEligible(coupons, ledger, c, last.body.subtotal_cents,
                last.request.customer_id, last.request.order_source,
                \E i \in DOMAIN last.body.discounts :
                   last.body.discounts[i].type = "membership", clock)
          /\ CouponAmount(coupons[c], PreviewRunningAfterMembership) > 0)

\* C12: when an eligible coupon does not stack with coupons, the answer
\* carries exactly one coupon line: it names an eligible coupon whose amount
\* is the highest of the eligible amounts, and its amount is the smaller of
\* that amount and the running total after membership.
C12BestCouponOnly ==
    (/\ Previewed
     /\ \E i \in DOMAIN PreviewEligibleCodes :
           ~coupons[PreviewEligibleCodes[i]].stackable_with_coupons)
    => /\ Len(PreviewCouponLines) = 1
       /\ \E i \in DOMAIN PreviewEligibleCodes :
             /\ PreviewCouponLines[1].code = PreviewEligibleCodes[i]
             /\ \A j \in DOMAIN PreviewEligibleCodes :
                   CouponAmount(coupons[PreviewEligibleCodes[j]],
                                PreviewRunningAfterMembership)
                     <= CouponAmount(coupons[PreviewEligibleCodes[i]],
                                     PreviewRunningAfterMembership)
             /\ PreviewCouponLines[1].amount_cents
                   = Min(CouponAmount(coupons[PreviewEligibleCodes[i]],
                                      PreviewRunningAfterMembership),
                         PreviewRunningAfterMembership)

\* C12 witness: three coupons with different amounts were eligible, one of
\* them not stackable, and the answer carries one coupon line
C12Witness ==
    /\ Previewed
    /\ Len(PreviewEligibleCodes) = 3
    /\ ~coupons[CodeB].stackable_with_coupons
    /\ coupons[CodeA].stackable_with_coupons
    /\ Len(PreviewCouponLines) = 1
    /\ PreviewCouponLines[1].code = CodeC
    /\ PreviewCouponLines[1].amount_cents > 300

\* the coupon lines of a stack in which every amount is taken on the running
\* total left by the coupons before it
RECURSIVE SequentialLines(_, _)
SequentialLines(codes, running) ==
    IF codes = << >> THEN << >>
    ELSE LET amt == Min(CouponAmount(coupons[Head(codes)], running), running)
         IN  IF amt <= 0 THEN SequentialLines(Tail(codes), running)
             ELSE << CouponLine(Head(codes), amt) >>
                    \o SequentialLines(Tail(codes), running - amt)

\* C13: when every eligible coupon stacks, the coupon lines are those of the
\* eligible coupons in input order, each amount computed on the running
\* total after membership and after every coupon applied before it, capped
\* by the coupon's ceiling and by that running total.
C13StackOnRunningTotal ==
    (/\ Previewed
     /\ \A i \in DOMAIN PreviewEligibleCodes :
           coupons[PreviewEligibleCodes[i]].stackable_with_coupons)
    => PreviewCouponLines
         = SequentialLines(PreviewEligibleCodes, PreviewRunningAfterMembership)

\* ===================================================== pricing properties
\* the dinner-option adjustment lines of the previewed answer
PreviewDinnerOptionLines ==
    SelectSeq(last.body.adjustments, LAMBDA a : a.type = "dinner_option")

\* the style-adjusted unit price of the previewed dinner
PreviewStyleBase ==
    ApplyStyleToBase(last.request.dinner.code, last.request.dinner.style)[1]

\* C14: the dinner options are applied in the order their ids were
\* submitted: the adjustment lines of a preview are the options of the
\* submitted list in that order, the i-th value being the delta computed on
\* the running unit price left by the first i-1 of them.
C14SubmittedOrderKept ==
    Previewed =>
       PreviewDinnerOptionLines
          = PreviewOptionAdjustments(
               last.request.dinner.dinner_options,
               DinnerOptionChain(PreviewStyleBase,
                                 last.request.dinner.dinner_options, << >>).deltas)

\* the previewed request selected exactly two dinner options, both of
\* multiplier mode and of different multipliers
TwoMultipliersPreviewed ==
    /\ Previewed
    /\ Len(last.rows) = 2
    /\ \A k \in 1..2 : DinnerOptions[last.rows[k]].price_mode = "multiplier"
    /\ MultiplierOf(DinnerOptions[last.rows[1]]) # MultiplierOf(DinnerOptions[last.rows[2]])

\* the running unit price after the two options in the order the rows came,
\* and in the other order
UnitAsApplied == DinnerOptionChain(PreviewStyleBase, last.rows, << >>).unit

UnitReversed ==
    DinnerOptionChain(PreviewStyleBase, << last.rows[2], last.rows[1] >>, << >>).unit

\* the running unit price after the two options when each delta is the
\* half-up rounding of the running unit times (multiplier - 1)
UnitStepwise ==
    LET d1 == RoundHalfUp(PreviewStyleBase
                 * (MultiplierOf(DinnerOptions[last.rows[1]]) - 1000), 1000)
        d2 == RoundHalfUp((PreviewStyleBase + d1)
                 * (MultiplierOf(DinnerOptions[last.rows[2]]) - 1000), 1000)
    IN  PreviewStyleBase + d1 + d2

Abs(x) == IF x < 0 THEN 0 - x ELSE x

PreviewItemOptionRows(k) ==
    {i \in DOMAIN ItemOptions : i \in Range(last.request.items[k].options)}

\* sum of the addon deltas of a set of item options
RECURSIVE AddonSum(_)
AddonSum(S) ==
    IF S = {} THEN 0
    ELSE LET i == CHOOSE i \in S : TRUE
         IN  (IF ItemOptions[i].price_mode = "addon"
              THEN ItemOptions[i].price_delta_cents ELSE 0) + AddonSum(S \ {i})

\* product of the multipliers of a set of item options, in thousandths to
\* the power of their number: <<numerator, denominator>>
RECURSIVE MultiplierProduct(_)
MultiplierProduct(S) ==
    IF S = {} THEN << 1, 1 >>
    ELSE LET i == CHOOSE i \in S : TRUE
             rest == MultiplierProduct(S \ {i})
         IN  IF ItemOptions[i].price_mode = "addon" THEN rest
             ELSE << rest[1] * MultiplierOf(ItemOptions[i]), rest[2] * 1000 >>

\* the unit price obtained when the price is rounded after each multiplier
\* of S, taken in ascending option id, the addons added first
RECURSIVE RoundedPerOption(_, _)
RoundedPerOption(unit, S) ==
    IF S = {} THEN unit
    ELSE LET i == CHOOSE i \in S : \A j \in S : i <= j
         IN  RoundedPerOption(
                IF ItemOptions[i].price_mode = "addon" THEN unit
                ELSE RoundHalfUp(unit * MultiplierOf(ItemOptions[i]), 1000),
                S \ {i})

ItemBase(k) == MenuItems[last.request.items[k].code].base_price_cents

\* C16: the unit price of every previewed item is the half-up rounding,
\* done once, of (base + sum of addon deltas) x product of multipliers: with
\* addons only it is base + sum of deltas, with multipliers only the
\* rounding of base x product, and it is not the per-option rounding when
\* that differs.
C16SingleRounding ==
    Previewed =>
       \A k \in DOMAIN last.body.line_items :
          LET S == PreviewItemOptionRows(k)
              p == MultiplierProduct(S)
              once == RoundHalfUp((ItemBase(k) + AddonSum(S)) * p[1], p[2])
              unit == last.body.line_items[k].unit_price_cents
          IN  /\ unit = once
              /\ p = << 1, 1 >> => unit = ItemBase(k) + AddonSum(S)
              /\ AddonSum(S) = 0 => unit = RoundHalfUp(ItemBase(k) * p[1], p[2])
              /\ RoundedPerOption(ItemBase(k) + AddonSum(S), S) # once
                    => unit # RoundedPerOption(ItemBase(k) + AddonSum(S), S)

\* C16 witness: steak with multipliers 1.105 and 1.155 is previewed at 645,
\* the rounding of 644.52, where rounding after each option gives 644; the
\* addon-only wine of the same request is previewed at 320
C16Witness ==
    /\ Previewed
    /\ Len(last.body.line_items) = 2
    /\ Cardinality(PreviewItemOptionRows(1)) = 2
    /\ AddonSum(PreviewItemOptionRows(1)) = 0
    /\ last.body.line_items[1].unit_price_cents
          # RoundedPerOption(ItemBase(1), PreviewItemOptionRows(1))
    /\ MultiplierProduct(PreviewItemOptionRows(2)) = << 1, 1 >>
    /\ last.body.line_items[2].unit_price_cents = ItemBase(2) + 20

\* ===================================================== item line properties
\* the default quantity of an item in a dinner, 0 when it is not a default
DefaultQty(dinner, code) ==
    SeqSum([k \in DOMAIN DefaultItems(dinner) |->
               IF DefaultItems(dinner)[k].item = code
               THEN DefaultItems(dinner)[k].default_qty ELSE 0])

\* the quantity a request asks for an item in all: the default quantity, or
\* the last override of it, plus every requested line of that item
RequestedQty(in, code) ==
    LET ovs == SelectSeq(in.dinner.default_overrides, LAMBDA ov : ov.code = code)
        start == IF ovs = << >> THEN DefaultQty(in.dinner.code, code)
                 ELSE ovs[Len(ovs)].qty
    IN  start + SeqSum([k \in DOMAIN in.items |->
                          IF in.items[k].code = code THEN in.items[k].qty ELSE 0])

\* the items a request names or the dinner brings by default
RequestedCodes(in) ==
    {in.items[k].code : k \in DOMAIN in.items}
       \cup {DefaultItems(in.dinner.code)[k].item : k \in DOMAIN DefaultItems(in.dinner.code)}

\* the lines of one item of a dinner have a tag that fits their quantity
TagFits(dinner_type, line) ==
    /\ line.final_qty > 0 => line.change_type # "removed"
    /\ line.final_qty > DefaultQty(dinner_type, line.item)
          => line.change_type \notin {"unchanged", "decreased"}

\* C17: a request that names an item more than once, or names a default
\* item, ends in one line for that item whose quantity is the sum of the
\* contributions; in every persisted dinner no item has two lines, a line
\* with a quantity above zero is not tagged removed and a line grown above
\* its default quantity is not tagged unchanged or decreased.
C17OneLinePerItem ==
    /\ \A r \in Workers :
          wk[r].pc = "c_priced" =>
             \A code \in RequestedCodes(wk[r].in) :
                /\ Cardinality({k \in DOMAIN wk[r].tx.dinner.items :
                                   wk[r].tx.dinner.items[k].item = code}) = 1
                /\ \A k \in DOMAIN wk[r].tx.dinner.items :
                      wk[r].tx.dinner.items[k].item = code
                         => wk[r].tx.dinner.items[k].final_qty
                               = RequestedQty(wk[r].in, code)
    /\ \A o \in OrderIds :
          dinners[o] # Absent =>
             \A k \in DOMAIN dinners[o].items :
                /\ \A j \in DOMAIN dinners[o].items :
                      dinners[o].items[j].item = dinners[o].items[k].item => j = k
                /\ TagFits(dinners[o].dinner_type, dinners[o].items[k])

\* ===================================================== readiness properties
\* the persisted operation log of order o holds a mark_ready entry
MarkedReady(rows, o) ==
    /\ rows[o] # Absent
    /\ \E i \in 1..Len(rows[o].meta.staff_ops) :
          rows[o].meta.staff_ops[i].event = "mark_ready"

\* C18: every change event the trigger emits for an order carries
\* ready = true when the operation log committed with it holds a mark_ready
\* entry (the event of the mark_ready itself included), and ready = false
\* when no mark_ready has committed.
C18ReadyFollowsLog ==
    [][\A i \in (Len(channel) + 1)..Len(channel') :
          channel'[i].src = "trigger"
             => channel'[i].ready = MarkedReady(orders', channel'[i].order_id)]_vars

\* the mark_ready entries of the persisted operation log of order o
ReadyEntries(rows, o) ==
    SelectSeq(rows[o].meta.staff_ops, LAMBDA e : e.event = "mark_ready")

\* C19: a mark_ready handler starts only on a PREPARING order; its commit
\* leaves status, subtotal, discount and total as they were and appends one
\* mark_ready entry to the operation log, whatever the log already holds; in
\* every other status the request is answered 409 and nothing changes.
C19MarkReadyFrame ==
    [][/\ \A r \in Workers :
            (wk[r].pc = "idle" /\ wk'[r].pc = "intx" /\ wk'[r].method = "mark_ready")
               => orders[wk'[r].order].status = PREP
       /\ \A r \in Workers :
            (wk[r].pc = "saved" /\ wk'[r].pc = "committed" /\ wk[r].method = "mark_ready")
               => LET o == wk[r].order
                  IN  /\ orders'[o].status = orders[o].status
                      /\ orders'[o].subtotal_cents = orders[o].subtotal_cents
                      /\ orders'[o].discount_cents = orders[o].discount_cents
                      /\ orders'[o].total_cents = orders[o].total_cents
                      /\ Len(orders'[o].meta.staff_ops)
                            = Len(orders[o].meta.staff_ops) + 1
                      /\ SubSeq(orders'[o].meta.staff_ops, 1,
                                Len(orders[o].meta.staff_ops))
                            = orders[o].meta.staff_ops
                      /\ Len(ReadyEntries(orders', o))
                            = Len(ReadyEntries(orders, o)) + 1
                      /\ \A p \in OrderIds \ {o} : orders'[p] = orders[p]
       /\ (/\ last' # last
           /\ last'.kind = "action" /\ last'.method = "mark_ready"
           /\ last'.seen \in OrderStatus \ {PREP})
             => last'.code = 409 /\ orders' = orders /\ channel' = channel]_vars

\* C19 witness: order 1 is PREPARING with two mark_ready entries in its log
\* and the second mark_ready was answered 200
C19Witness ==
    /\ orders[1] # Absent
    /\ orders[1].status = PREP
    /\ Len(ReadyEntries(orders, 1)) = 2
    /\ last.kind = "action" /\ last.method = "mark_ready" /\ last.code = 200

\* ===================================================== relay properties
\* the session of subscriber s has issued LISTEN on every configured channel
AllListened(s) == relay[s].listened = Len(RelayChannels)

\* notifications relayed in the current session of subscriber s
Relayed(s) == relay[s].pos - relay[s].start

\* C20: in every session of the relay at most one diagnostic is emitted, it
\* is emitted only after LISTEN on every configured channel and no
\* notification is relayed before it; once LISTEN has been issued on every
\* channel the diagnostic of the session is emitted.
C20OneDiagnosticPerSession ==
    \A s \in Subscribers :
       /\ [](relay[s].pc # "down" =>
               /\ relay[s].diags <= 1
               /\ relay[s].diags = 1 => AllListened(s)
               /\ Relayed(s) + relay[s].pending > 0 => relay[s].diags = 1
               /\ relay[s].pc = "streaming" => relay[s].diags = 1)
       /\ ((relay[s].pc = "connected" /\ AllListened(s))
              ~> (relay[s].pc = "streaming" /\ relay[s].diags = 1
                     /\ relay[s].out = Diagnostic))

\* C20 witness: after two failed sessions the relay reconnected, emitted its
\* diagnostic and has relayed a notification of the new session
C20Witness ==
    /\ relay[1].pc = "streaming"
    /\ relay[1].backoff > 2 * BackoffStart
    /\ relay[1].diags = 1
    /\ AllListened(1)
    /\ Relayed(1) >= 1
    /\ relay[1].out # Diagnostic

\* ===================================================== delivery properties
\* positions of the notifications a creation can put on the channel: one
\* for the INSERT and one for the UPDATE of each order
ChannelIndexes == 1..(2 * MaxOrders)

\* notification i is on the channel and was delivered to the open session of
\* subscriber s, which has emitted its diagnostic and not yet relayed it
AwaitsRelay(s, i) ==
    /\ relay[s].pc = "streaming"
    /\ i <= Len(channel)
    /\ relay[s].start < i
    /\ relay[s].pos < i

\* C21: once the session of a subscriber has emitted its diagnostic, the
\* notification of every order creation committed afterwards is relayed to
\* the subscriber as a frame whose data carries the id of the new order,
\* unless the session ends first.
C21CreationReachesSubscriber ==
    \A s \in Subscribers, i \in ChannelIndexes :
       (AwaitsRelay(s, i) /\ channel[i].event = "order_created")
          ~> \/ relay[s].pc = "down"
             \/ /\ relay[s].pos = i
                /\ relay[s].out # Absent
                /\ SseFrame(relay[s].out).event = "order_created"
                /\ "order_id" \in DOMAIN SseFrame(relay[s].out).data
                /\ SseFrame(relay[s].out).data.order_id = channel[i].order_id

\* C21 witness: the second order was created after the diagnostic and its
\* creation event has been relayed in the same session
C21Witness ==
    /\ relay[1].pc = "streaming"
    /\ relay[1].diags = 1
    /\ relay[1].start < relay[1].pos
    /\ relay[1].out # Absent
    /\ SseFrame(relay[1].out).event = "order_created"
    /\ SseFrame(relay[1].out).data.order_id = 2
    /\ orders[2] # Absent

\* subscriber s is handed a notification in this step: the position relayed
YieldsIn(s) == relay[s].pc = "streaming" /\ relay'[s].pos = relay[s].pos + 1

\* the session of s listens on orders_events
ListensOnOrders(s) ==
    /\ relay[s].pc \in {"connected", "streaming"}
    /\ \E k \in 1..relay[s].listened : RelayChannels[k] = "orders_events"

\* C22: delivery is at most once and without replay. The channel only
\* grows; a session starts behind everything sent before its LISTEN, so
\* what was sent before it listened (during the bootstrap, while
\* disconnected or in backoff) is never handed to it; within a session every
\* step hands over the one notification after the last one handed over, so
\* none is handed over twice; and a later session starts behind everything
\* an earlier one could have relayed.
C22AtMostOnceNoReplay ==
    [][/\ Len(channel') >= Len(channel)
       /\ SubSeq(channel', 1, Len(channel)) = channel
       /\ \A s \in Subscribers :
             /\ ListensOnOrders(s) =>
                   relay[s].start <= relay[s].pos /\ relay[s].pos <= Len(channel)
             /\ (~ListensOnOrders(s) /\ ListensOnOrders(s)')
                   => relay'[s].start = Len(channel) /\ relay'[s].pos = Len(channel)
             /\ (ListensOnOrders(s) /\ ListensOnOrders(s)')
                   => /\ relay'[s].start = relay[s].start
                      /\ relay'[s].pos \in {relay[s].pos, relay[s].pos + 1}
             /\ YieldsIn(s)
                   => /\ relay[s].pos + 1 > relay[s].start
                      /\ relay'[s].out = RelayEvent("orders_events",
                                                    channel[relay[s].pos + 1])
             /\ (relay'[s].out # relay[s].out /\ relay'[s].out \notin {Absent, Diagnostic})
                   => YieldsIn(s)]_vars

\* C22 witness: the first order was created while the relay was in backoff;
\* the new session has relayed the creation of the second order and holds
\* nothing of the first
C22Witness ==
    /\ relay[1].pc = "streaming"
    /\ relay[1].slept > 0
    /\ relay[1].start >= 2
    /\ relay[1].pos = Len(channel)
    /\ relay[1].pos > relay[1].start
    /\ relay[1].pending = 0
    /\ channel[1].order_id = 1
    /\ relay[1].out.order_id = 2


\* ===================================================== reconnect properties
\* the generator of s has slept after an error and holds no connection
Failed(s) == relay[s].pc = "down" /\ relay[s].slept > 0 /\ relay[s].listened = 0

\* what the consumer of the stream can be handed
StreamMessages ==
    {Absent, Diagnostic}
       \cup {RelayEvent("orders_events", channel[i]) : i \in 1..Len(channel)}

\* what a transport error leaves of the stream of s: the generator stays in
\* its loop and hands over nothing but the diagnostic and notifications,
\* while disconnected it holds no subscription, and a generator that has
\* slept after an error issues LISTEN again on every configured channel
\* unless errors keep coming for ever
ErrorsOnlyDriveReconnect(s) ==
    /\ [](/\ relay[s].pc \in {"down", "connected", "streaming"}
          /\ relay[s].out \in StreamMessages
          /\ relay[s].pc = "down" => relay[s].listened = 0 /\ relay[s].out = Absent)
    /\ \/ []<><<RelayFail(s)>>_vars
       \/ Failed(s) ~> (relay[s].pc # "down" /\ AllListened(s))

\* C23: a transport error never reaches the consumer and never ends the
\* stream: after any error the relay has closed cursor and connection, waits
\* and eventually reconnects and issues LISTEN again on every configured
\* channel, for any number of successive errors.
C23ErrorsOnlyDriveReconnect == ErrorsOnlyDriveReconnect(1)

\* C23 witness: after three successive errors the generator is connected
\* again with LISTEN issued on every channel
C23Witness ==
    /\ relay[1].slept = 4 * BackoffStart
    /\ relay[1].pc = "streaming"
    /\ AllListened(1)
    /\ relay[1].out = Diagnostic


\* ===================================================== subscriber properties
\* the stream of s is closed in this step
ClosesIn(s) == relay[s].pc # "closed" /\ relay'[s].pc = "closed"

\* C24: closing the connection of one subscriber ends that subscriber's
\* receive loop for good and releases its subscription; in that step the
\* loop of every other subscriber and everything shared (the channel, the
\* tables) are left as they were, and every other subscriber whose session
\* is streaming still has every later notification relayed to it unless
\* its own session ends.
C24CloseEndsOneLoop ==
    /\ [][\A s \in Streams :
            /\ ClosesIn(s) =>
                  /\ relay'[s].listened = 0 /\ relay'[s].pending = 0
                  /\ \A j \in Streams \ {s} : relay'[j] = relay[j]
                  /\ UNCHANGED <<orders, dinners, ledger, channel, nextId, rowLock,
                                 couponLock, coupons, memberships, wk, history,
                                 clock, started, last>>
            /\ relay[s].pc = "closed" => relay'[s] = relay[s]]_vars
    /\ \A j \in Streams, i \in ChannelIndexes :
          AwaitsRelay(j, i) ~> \/ relay[j].pc \in {"down", "closed"}
                               \/ relay[j].pos >= i

\* C24 witness: both subscribers listened before the first order; the first
\* closed after the first notification, the second has since been handed the
\* creation of the second order
C24Witness ==
    /\ relay[1].pc = "closed" /\ relay[1].start = 0 /\ relay[1].pos = 1
    /\ relay[2].pc = "streaming" /\ relay[2].start = 0 /\ relay[2].pos = 2
    /\ relay[2].out # Absent
    /\ "order_id" \in DOMAIN relay[2].out
    /\ relay[2].out.order_id = 2


\* ===================================================== coupon code properties
\* the codes of a list with every later repetition dropped
RECURSIVE DedupCodes(_)
DedupCodes(codes) ==
    IF codes = << >> THEN codes
    ELSE LET init == DedupCodes(SubSeq(codes, 1, Len(codes) - 1))
             c == codes[Len(codes)]
         IN  IF c \in Range(init) THEN init ELSE Append(init, c)

\* C25: requested coupon codes are case-normalised and deduplicated before
\* evaluation: a previewed answer carries at most one discount line for a
\* coupon, and its discount is the discount of the same request with every
\* code submitted once.
C25DuplicateCodeCountsOnce ==
    Previewed =>
       /\ \A i, j \in DOMAIN PreviewCouponLines :
             i # j => PreviewCouponLines[i].code # PreviewCouponLines[j].code
       /\ last.body.discount_cents
            = EvaluateDiscounts(coupons, memberships, ledger,
                 last.body.subtotal_cents, last.request.customer_id,
                 last.request.order_source,
                 DedupCodes(NormalizeCodes(last.request.coupons)), clock).total_discount


\* ===================================================== backoff properties
\* the wait before the n-th reconnection attempt, in tenths of a second:
\* 0.5 s doubled n - 1 times, at most 10 s
RECURSIVE Wait(_)
Wait(n) == IF n = 1 THEN 5 ELSE Min(2 * Wait(n - 1), 100)

\* more errors than it takes the wait to reach its ceiling
ErrorCounts == 1..8

\* C26: the waits of a relay generator follow exponential backoff: before
\* any error the next wait is 0.5 s; after the n-th error the generator has
\* waited 0.5 s doubled n - 1 times and capped at 10 s, and the wait after
\* the next error is the one that follows it in 0.5, 1, 2, 4, 8, 10, 10, ...
C26ExponentialBackoff ==
    /\ [](\A s \in Subscribers :
             \/ relay[s].slept = 0 /\ relay[s].backoff = Wait(1)
             \/ \E n \in ErrorCounts :
                   relay[s].slept = Wait(n) /\ relay[s].backoff = Wait(n + 1))
    /\ [][\A s \in Subscribers :
             relay'[s].slept # relay[s].slept
                => relay'[s].slept = relay[s].backoff]_vars

\* C26 witness: the generator has waited 8 s after its fifth error and will
\* wait 10 s after the next one
C26Witness ==
    /\ relay[1].pc = "down"
    /\ relay[1].slept = Wait(5)
    /\ relay[1].slept = 80
    /\ relay[1].backoff = 100


\* ===================================================== event name properties
HasKey(members, k) == \E i \in DOMAIN members : members[i][1] = k

\* the value of the last member with key k
ValueOf(members, k) ==
    LET at == CHOOSE i \in DOMAIN members :
                 /\ members[i][1] = k
                 /\ \A j \in DOMAIN members : members[j][1] = k => j <= i
    IN  members[at][2].v

\* the event name the priority rule gives an object with these members
ExpectedName(members) ==
    IF HasKey(members, "event") THEN ValueOf(members, "event")
    ELSE IF HasKey(members, "op") /\ ValueOf(members, "op") = "INSERT" THEN "order_created"
    ELSE IF HasKey(members, "op") /\ ValueOf(members, "op") = "UPDATE" THEN "order_updated"
    ELSE IF HasKey(members, "op") /\ ValueOf(members, "op") = "DELETE" THEN "order_deleted"
    ELSE "orders_events"

\* C27: the event name of a relayed message is the payload's own event field
\* when it has one (also when it has an op field), otherwise order_created,
\* order_updated or order_deleted for op INSERT, UPDATE or DELETE, otherwise
\* the name of the channel; the other members of the payload are relayed as
\* sent.
C27EventNamePriority ==
    [][\A s \in Subscribers :
          YieldsIn(s) =>
             \A m \in NoteMembers :
                channel[relay[s].pos + 1] = JsonText(m) =>
                   /\ relay'[s].out.event = ExpectedName(m)
                   /\ \A i \in DOMAIN m :
                         /\ m[i][1] \in DOMAIN relay'[s].out
                         /\ m[i][1] # "event" =>
                               relay'[s].out[m[i][1]] = ValueOf(m, m[i][1])]_vars

\* C27 witness: a payload with op DELETE and its own event field was relayed
\* under its own event name
C27Witness ==
    /\ relay[1].pc = "streaming"
    /\ relay[1].pos > 0
    /\ relay[1].out # Absent
    /\ "op" \in DOMAIN relay[1].out
    /\ relay[1].out.op = "DELETE"
    /\ relay[1].out.event = "custom"


\* ===================================================== malformed payload properties
\* C28: a notification whose payload is not valid JSON is relayed as an
\* event named after the channel whose data holds the raw text under raw; the
\* session stays streaming with its subscription and with the rest of the
\* drain still to be relayed, notifications are relayed one position after
\* the other, and every notification delivered to a streaming session is
\* relayed.
C28MalformedPayloadWrapped ==
    /\ [][\A s \in Subscribers :
             /\ (YieldsIn(s) /\ channel[relay[s].pos + 1] \in BrokenTexts)
                   => /\ relay'[s].out = [event |-> "orders_events",
                                          raw |-> channel[relay[s].pos + 1]]
                      /\ relay'[s].pc = "streaming"
                      /\ relay'[s].listened = relay[s].listened
                      /\ relay'[s].pending = relay[s].pending - 1
             /\ (relay[s].pc = "streaming" /\ relay[s].pending > 0)
                   => /\ relay'[s].pc = "streaming"
                      /\ relay'[s].pos \in {relay[s].pos, relay[s].pos + 1}]_vars
    /\ \A s \in Subscribers, i \in 1..MaxNotes :
          (relay[s].pc = "streaming" /\ relay[s].start < i /\ i <= Len(channel))
             ~> (relay[s].pc = "streaming" /\ relay[s].pos >= i)

\* C28 witness: a text json.loads rejects arrived first; it was relayed
\* wrapped and the order creation behind it was relayed after it
C28Witness ==
    /\ Len(channel) = 2
    /\ channel[1] \in BrokenTexts
    /\ relay[1].pc = "streaming"
    /\ relay[1].start = 0
    /\ relay[1].pos = 2
    /\ relay[1].pending = 0
    /\ relay[1].out = [event |-> "order_created", order_id |-> 1]


\* ===================================================== snapshot properties
\* the sum of the deltas stored in the option snapshots of a line
StoredDeltaSum(line) ==
    SeqSum([k \in DOMAIN line.options |-> line.options[k].price_delta_cents])

\* C29: for every persisted item line with option snapshots the unit price
\* is the base price of the item plus the sum of the stored deltas, the
\* delta of a multiplier option being its resolved amount, and no snapshot
\* of an item option or of a dinner option stores a multiplier.
C29SnapshotsResolveDeltas ==
    \A o \in OrderIds :
       dinners[o] # Absent =>
          /\ \A k \in DOMAIN dinners[o].items :
                LET line == dinners[o].items[k]
                IN  /\ \A j \in DOMAIN line.options : line.options[j].multiplier = Null
                    /\ line.options # << >> =>
                          line.unit_price_cents
                             = MenuItems[line.item].base_price_cents + StoredDeltaSum(line)
          /\ \A j \in DOMAIN dinners[o].options : dinners[o].options[j].multiplier = Null


\* ===================================================== delay properties
\* the session of s is lost to an error in this step
ErrorIn(s) ==
    \/ relay[s].pc \in {"connected", "streaming"} /\ relay'[s].pc = "down"
    \/ relay'[s].slept # relay[s].slept

\* C30: the backoff delay of a relay generator never decreases: no step,
\* a successful reconnection and a healthy session included, lowers it, and
\* once it has reached 10 s (after five errors) every later error is
\* followed by a wait of 10 s.
C30BackoffNeverResets ==
    [][\A s \in Subscribers :
          /\ relay'[s].backoff >= relay[s].backoff
          /\ (relay[s].backoff = BackoffCap /\ ErrorIn(s))
                => relay'[s].slept = BackoffCap /\ relay'[s].backoff = BackoffCap]_vars

\* C30 witness: after six errors the generator reconnected and relayed an
\* order creation, and its delay still stands at 10 s
C30Witness ==
    /\ relay[1].pc = "streaming"
    /\ relay[1].slept = BackoffCap
    /\ relay[1].backoff = BackoffCap
    /\ relay[1].pos > relay[1].start
    /\ relay[1].out # Absent
    /\ relay[1].out.event = "order_created"

====
